---- MODULE Spec2Model ----
(***************************************************************************)
(* Retrieval subsystem of CatchAI: DocumentEmbedder (src/src/embedder.py)  *)
(* over a ChromaDB collection, and HybridSearch                            *)
(* (src/src/advanced_features.py).                                         *)
(*                                                                         *)
(* Texts are sequences of one-character strings.  The alphabet is          *)
(* upper-case letters, lower-case letters, digits, the space and the line  *)
(* break; the punctuation of dates, decimals and amounts is outside it.    *)
(***************************************************************************)
EXTENDS Integers, Sequences, FiniteSets, TLC

(***************************************************************************)
(* Bounds of the model.                                                    *)
(***************************************************************************)
\* chunk_size and chunk_overlap of the splitter, scaled down from 1000/100
ChunkSize == 6
ChunkOverlap == 2
\* largest n_results asked of a search
MaxK == 2
\* number of add_documents_to_vectorstore calls (one clock tick each)
MaxClock == 2
\* longest text, over whitespace and one letter, handed to split_documents
MaxTextLen == 7
\* largest corpus handed to keyword_search
MaxCorpus == 3

(***************************************************************************)
(* Characters and strings.                                                 *)
(***************************************************************************)
Upper == {"A", "B"}
Lower == {"b"}
Digit == {"1"}
White == {" ", "\n"}
Letter == Upper \cup Lower
Alnum == Letter \cup Digit

Range(s) == {s[i] : i \in 1..Len(s)}

\* a strip that drops nothing
StripNothing(s) == s

\* str.strip(): drop leading and trailing whitespace
RECURSIVE LStrip(_)
LStrip(s) == IF s # <<>> /\ Head(s) \in White THEN LStrip(Tail(s)) ELSE s

RECURSIVE RStrip(_)
RStrip(s) ==
    IF s # <<>> /\ s[Len(s)] \in White THEN RStrip(SubSeq(s, 1, Len(s) - 1)) ELSE s

Strip(s) == RStrip(LStrip(s))

\* "".join(parts)
RECURSIVE Join(_)
Join(parts) == IF parts = <<>> THEN <<>> ELSE Head(parts) \o Join(Tail(parts))

\* the sum of the lengths of the strings of a list
RECURSIVE TotalLen(_)
TotalLen(parts) == IF parts = <<>> THEN 0 ELSE Len(Head(parts)) + TotalLen(Tail(parts))

SelectNonEmpty(parts) == SelectSeq(parts, LAMBDA p : p # <<>>)

(***************************************************************************)
(* RecursiveCharacterTextSplitter(chunk_size, chunk_overlap,               *)
(* length_function=len, separators=["\n\n", "\n", " ", ""]), with the      *)
(* library's defaults keep_separator=True and strip_whitespace=True.       *)
(***************************************************************************)
Separators == << <<"\n", "\n">>, <<"\n">>, <<" ">>, <<>> >>

\* least position >= i where sep occurs in text, 0 when there is none
RECURSIVE FindSep(_, _, _)
FindSep(text, sep, i) ==
    IF i + Len(sep) - 1 > Len(text) THEN 0
    ELSE IF SubSeq(text, i, i + Len(sep) - 1) = sep THEN i
    ELSE FindSep(text, sep, i + 1)

\* re.split(sep, text) from position start: the segments between occurrences
RECURSIVE Segments(_, _, _)
Segments(text, sep, start) ==
    LET j == FindSep(text, sep, start) IN
    IF j = 0 THEN << SubSeq(text, start, Len(text)) >>
    ELSE << SubSeq(text, start, j - 1) >> \o Segments(text, sep, j + Len(sep))

\* _split_text_with_regex, keep_separator=True: each separator is kept at the
\* head of the piece that follows it; empty pieces are dropped
SplitWithSep(text, sep) ==
    IF sep = <<>> THEN [i \in 1..Len(text) |-> << text[i] >>]
    ELSE LET segs == Segments(text, sep, 1) IN
         SelectNonEmpty([k \in 1..Len(segs) |->
                            IF k = 1 THEN segs[1] ELSE sep \o segs[k]])

\* _join_docs: the joined and stripped text, as a list of zero or one chunk
JoinDocs(docs) ==
    LET text == Strip(Join(docs)) IN IF text = <<>> THEN <<>> ELSE << text >>

\* the while loop of _merge_splits: pop pieces off the head of current_doc while
\* it is longer than the overlap, or while the next piece does not fit
RECURSIVE PopHead(_, _)
PopHead(cur, dlen) ==
    LET total == TotalLen(cur) IN
    IF total > ChunkOverlap \/ (total + dlen > ChunkSize /\ total > 0)
    THEN PopHead(Tail(cur), dlen)
    ELSE cur

\* _merge_splits(splits, separator="") from piece k on
RECURSIVE MergeFrom(_, _, _, _)
MergeFrom(splits, k, docs, cur) ==
    IF k > Len(splits) THEN docs \o JoinDocs(cur)
    ELSE LET d == splits[k] IN
         IF TotalLen(cur) + Len(d) > ChunkSize /\ Len(cur) > 0
         THEN MergeFrom(splits, k + 1, docs \o JoinDocs(cur),
                        Append(PopHead(cur, Len(d)), d))
         ELSE MergeFrom(splits, k + 1, docs, Append(cur, d))

\* a merge of all the pieces into one chunk, whatever their length
MergeSplitsWhole(splits) == JoinDocs(splits)

MergeSplits(splits) == MergeFrom(splits, 1, <<>>, <<>>)

\* index in seps of the separator _split_text picks: the first one that is
\* empty or occurs in the text
RECURSIVE PickSeparator(_, _, _)
PickSeparator(text, seps, i) ==
    IF i >= Len(seps) THEN Len(seps)
    ELSE IF seps[i] = <<>> \/ FindSep(text, seps[i], 1) # 0 THEN i
    ELSE PickSeparator(text, seps, i + 1)

RECURSIVE SplitTextRec(_, _)
RECURSIVE SplitPieces(_, _, _, _, _)

\* the loop of _split_text over the pieces: short pieces are gathered and
\* merged, a long piece is split again with the remaining separators
SplitPieces(splits, k, good, final, newSeps) ==
    IF k > Len(splits) THEN final \o MergeSplits(good)
    ELSE LET s == splits[k] IN
         IF Len(s) < ChunkSize
         THEN SplitPieces(splits, k + 1, Append(good, s), final, newSeps)
         ELSE SplitPieces(splits, k + 1, <<>>,
                          final \o MergeSplits(good)
                                \o (IF newSeps = <<>> THEN << s >>
                                    ELSE SplitTextRec(s, newSeps)),
                          newSeps)

SplitTextRec(text, seps) ==
    LET i       == PickSeparator(text, seps, 1)
        sep     == seps[i]
        newSeps == IF sep = <<>> THEN <<>> ELSE SubSeq(seps, i + 1, Len(seps))
    IN  SplitPieces(SplitWithSep(text, sep), 1, <<>>, <<>>, newSeps)

\* text_splitter.split_text(text)
SplitText(text) == SplitTextRec(text, Separators)

(***************************************************************************)
(* HybridSearch.extract_keywords and keyword_search                        *)
(* (src/src/advanced_features.py).                                         *)
(***************************************************************************)
\* the maximal runs of letters and digits of a text, from position i on, with
\* cur the run being read: the stretches between two \b word boundaries
RECURSIVE TokensFrom(_, _, _)
TokensFrom(text, i, cur) ==
    IF i > Len(text) THEN (IF cur = <<>> THEN {} ELSE {cur})
    ELSE IF text[i] \in Alnum THEN TokensFrom(text, i + 1, Append(cur, text[i]))
    ELSE (IF cur = <<>> THEN {} ELSE {cur}) \cup TokensFrom(text, i + 1, <<>>)

Tokens(text) == TokensFrom(text, 1, <<>>)

\* number of leading characters of w that are in the class cls
RECURSIVE PrefixIn(_, _)
PrefixIn(w, cls) ==
    IF w # <<>> /\ Head(w) \in cls THEN 1 + PrefixIn(Tail(w), cls) ELSE 0

\* \b[A-Z]{2,}\d+\b under re.IGNORECASE: two or more letters, then digits
IsCode(w) ==
    LET n == PrefixIn(w, Letter) IN
    n >= 2 /\ n < Len(w) /\ PrefixIn(SubSeq(w, n + 1, Len(w)), Digit) = Len(w) - n

\* \b\d{4,}\b: a run of four or more digits
IsLongNumber(w) == Len(w) >= 4 /\ PrefixIn(w, Digit) = Len(w)

\* \b[A-Z][a-z]{3,}\b, case-sensitive: a capital and three or more small letters
IsImportantWord(w) ==
    Len(w) >= 4 /\ w[1] \in Upper /\ PrefixIn(Tail(w), Lower) = Len(w) - 1

\* extract_keywords: list(set(keywords)); the date, decimal and amount patterns
\* need '/', '-', '.', ',' or '$' and match nothing over this alphabet
extract_keywords(text) ==
    {w \in Tokens(text) : IsCode(w) \/ IsLongNumber(w) \/ IsImportantWord(w)}

(***************************************************************************)
(* Documents, as PDFLoader.load_documents and create_sample_document hand  *)
(* them to the embedder (src/src/loader.py).                               *)
(***************************************************************************)
Filenames == {"a.pdf", "b.pdf"}
\* md5 digests of the uploaded files
Hashes == {"h1", "h2"}

\* the text extracted from the file with digest h; both texts start with the
\* same passage
TextOf(h) ==
    IF h = "h1" THEN <<"A", "B", "1", " ", "A", "b", "b", "b">>
    ELSE <<"A", "B", "1", "\n", "\n", "1", "1", "1", "1">>

Document(f, h) ==
    [filename  |-> f,
     content   |-> TextOf(h),
     file_hash |-> h,
     metadata  |-> [source |-> f, type |-> "pdf", hash |-> h]]

Documents == {Document(f, h) : f \in Filenames, h \in Hashes}

\* the batches of one upload: one or more files of different names, in any
\* order; two of them may have the same bytes
Batches ==
    {b \in UNION {[1..n -> Documents] : n \in 1..Cardinality(Filenames)} :
        \A i, j \in 1..Len(b) : i # j => b[i].filename # b[j].filename}

Queries ==
    { <<"A", "B", "1">>,
      <<"A", "B", "1", " ", "b", "b", "b", "b">>,
      <<"A", "b", "b", "b", " ", "1", "1", "1", "1">> }

\* The texts split_documents is called on directly: every text of up to
\* MaxTextLen characters over one letter, the space and the line break; three
\* paragraphs of letters, of up to ChunkSize + 1 characters each, two line
\* breaks between them; and words without any separator, of more than
\* ChunkSize characters
ShortTexts == UNION {[1..n -> {"A", " ", "\n"}] : n \in 0..MaxTextLen}

Paragraph(n) == [i \in 1..n |-> "A"]

ParagraphTexts ==
    {Paragraph(a) \o <<"\n", "\n">> \o Paragraph(b) \o <<"\n", "\n">> \o Paragraph(c) :
        a, b, c \in 1..(ChunkSize + 1)}

LongWord(n) == [i \in 1..n |-> IF i % 3 = 1 THEN "A" ELSE IF i % 3 = 2 THEN "B" ELSE "1"]

LongWords == {LongWord(n) : n \in (ChunkSize + 1)..(3 * ChunkSize)}

Texts == ShortTexts \cup ParagraphTexts \cup LongWords

\* The corpus keyword_search is called on directly: up to MaxCorpus stored
\* chunks of one document, each with one of these contents.  They have the
\* keywords AB1; AB11; AB1 and Abbb; Abbb; none
CorpusPassages ==
    { <<"A", "B", "1">>,
      <<"A", "B", "1", "1">>,
      <<"A", "B", "1", " ", "A", "b", "b", "b">>,
      <<"A", "b", "b", "b">>,
      <<"b", "b">> }

Corpora ==
    {[i \in 1..Len(c) |->
         [documents |-> << c[i] >>,
          metadatas |-> << [source |-> "a.pdf", chunk_index |-> i - 1] >>]] :
        c \in UNION {[1..n -> CorpusPassages] : n \in 0..MaxCorpus}}

\* the queries keyword_search is called with directly: those of the hybrid
\* search, one with the two keywords Abbb and AB1, and one without keywords
KeywordQueries ==
    Queries \cup { <<"A", "b", "b", "b", " ", "A", "B", "1">>, <<"b", "b">> }

\* text_splitter.split_text, tabulated over the texts of the documents
split_text == [text \in {TextOf(h) : h \in Hashes} |-> SplitText(text)]

\* self.text_splitter.split_text(content): looked up for the texts of the
\* documents, computed for any other text
TextChunks(content) ==
    IF content \in DOMAIN split_text THEN split_text[content] ELSE SplitText(content)

\* the passages and queries of the model
Passages ==
    UNION {Range(split_text[TextOf(h)]) : h \in Hashes}
        \cup KeywordQueries \cup CorpusPassages

\* extract_keywords, tabulated over the passages and queries
keywords_of == [text \in Passages |-> extract_keywords(text)]

(***************************************************************************)
(* DocumentEmbedder (src/src/embedder.py).                                 *)
(***************************************************************************)
VARIABLES
    collection,  \* the ChromaDB collection: its entries, in insertion order
    clock,       \* datetime.now(), one tick per ingestion call
    lastOp,      \* the last operation called, its arguments, the injected
                 \* faults, and the calls it made of the index and the model
    lastRet,     \* what it returned: "True", "False", "dict", or "raised"
    lastMsg,     \* the level of the streamlit message it ended with
    lastIds,     \* the chunk ids split_documents produced in it
    lastResult,  \* what split_documents, keyword_search, generate_embeddings
                 \* or search_similar_chunks returned in it, called directly
    lastStats,   \* the dict get_collection_stats returned
    lastHybrid,  \* the dict hybrid_search returned
    before,      \* the collection when the last operation was called
    prev,        \* how the last operation follows the one before it
    sessions,    \* of every browser session, the mutation of the collection
                 \* it is in and what that mutation has read
    conversation_history,  \* ChatManager.conversation_history
    conversation_context,  \* st.session_state.conversation_context
    session_state          \* st.session_state: the objects of the system
                           \* and system_initialized

vars == <<collection, clock, lastOp, lastRet, lastMsg, lastIds, lastResult,
          lastStats, lastHybrid, before, prev, sessions, conversation_history,
          conversation_context, session_state>>

\* the variables of the sessions and of the conversation
appVars == <<sessions, conversation_history, conversation_context, session_state>>

CollectionName == "pdf_documents"

\* SentenceTransformer.encode of one text: a fixed function of the text
Embed(text) ==
    << Cardinality({i \in 1..Len(text) : text[i] \in Letter}),
       Cardinality({i \in 1..Len(text) : text[i] \in Digit}) >>

EmbeddingDimension == Len(Embed(<<>>))

\* encode, tabulated over the passages and queries
encode == [text \in Passages |-> Embed(text)]

\* generate_embeddings answering a failed encode with zero vectors
generate_embeddings_fallback(texts, encodeFails) ==
    [i \in 1..Len(texts) |-> IF encodeFails THEN << 0, 0 >> ELSE encode[texts[i]]]

\* generate_embeddings: one vector per text, or [] when encode raises
generate_embeddings(texts, encodeFails) ==
    IF encodeFails THEN <<>> ELSE [i \in 1..Len(texts) |-> encode[texts[i]]]

\* str(i): the decimal digits of i
DigitChars == <<"0", "1", "2", "3", "4", "5", "6", "7", "8", "9">>

RECURSIVE Decimal(_)
Decimal(i) ==
    IF i < Len(DigitChars) THEN << DigitChars[i + 1] >>
    ELSE Decimal(i \div Len(DigitChars)) \o << DigitChars[(i % Len(DigitChars)) + 1] >>

\* ChunkId that leaves the chunk's index out of the id
ChunkIdOfHash(file_hash, i) == << file_hash, "_" >>

\* f"{doc['file_hash']}_{i}": the digest, an underscore, the index in decimal
ChunkId(file_hash, i) == << file_hash, "_" >> \o Decimal(i)

\* ChunksFrom with ids that are fresh in every call instead of derived from
\* the document's hash and the chunk's index alone
RECURSIVE ChunksFromFreshIds(_, _, _, _)
ChunksFromFreshIds(doc, text_chunks, i, now) ==
    IF i >= Len(text_chunks) THEN <<>>
    ELSE LET chunk_text == text_chunks[i + 1]
             chunk == [id           |-> << doc.file_hash, i, now >>,
                       content      |-> chunk_text,
                       source       |-> doc.filename,
                       chunk_index  |-> i,
                       total_chunks |-> Len(text_chunks),
                       metadata     |-> [source       |-> doc.metadata.source,
                                         type         |-> doc.metadata.type,
                                         hash         |-> doc.metadata.hash,
                                         chunk_index  |-> i,
                                         total_chunks |-> Len(text_chunks),
                                         chunk_size   |-> Len(chunk_text),
                                         timestamp    |-> now]]
         IN  (IF Strip(chunk_text) # <<>> THEN << chunk >> ELSE <<>>)
             \o ChunksFromFreshIds(doc, text_chunks, i + 1, now)

\* ChunksFrom numbering the pieces from 1
RECURSIVE ChunksFromOneBased(_, _, _, _)
ChunksFromOneBased(doc, text_chunks, i, now) ==
    IF i >= Len(text_chunks) THEN <<>>
    ELSE LET chunk_text == text_chunks[i + 1]
             chunk == [id           |-> ChunkId(doc.file_hash, i + 1),
                       content      |-> chunk_text,
                       source       |-> doc.filename,
                       chunk_index  |-> i + 1,
                       total_chunks |-> Len(text_chunks),
                       metadata     |-> [source       |-> doc.metadata.source,
                                         type         |-> doc.metadata.type,
                                         hash         |-> doc.metadata.hash,
                                         chunk_index  |-> i + 1,
                                         total_chunks |-> Len(text_chunks),
                                         chunk_size   |-> Len(chunk_text),
                                         timestamp    |-> now]]
         IN  (IF Strip(chunk_text) # <<>> THEN << chunk >> ELSE <<>>)
             \o ChunksFromOneBased(doc, text_chunks, i + 1, now)

\* the chunks of one document: piece i (0-based) of text_chunks, unless it is
\* whitespace only
RECURSIVE ChunksFrom(_, _, _, _)
ChunksFrom(doc, text_chunks, i, now) ==
    IF i >= Len(text_chunks) THEN <<>>
    ELSE LET chunk_text == text_chunks[i + 1]
             chunk == [id           |-> ChunkId(doc.file_hash, i),
                       content      |-> chunk_text,
                       source       |-> doc.filename,
                       chunk_index  |-> i,
                       total_chunks |-> Len(text_chunks),
                       metadata     |-> [source       |-> doc.metadata.source,
                                         type         |-> doc.metadata.type,
                                         hash         |-> doc.metadata.hash,
                                         chunk_index  |-> i,
                                         total_chunks |-> Len(text_chunks),
                                         chunk_size   |-> Len(chunk_text),
                                         timestamp    |-> now]]
         IN  (IF Strip(chunk_text) # <<>> THEN << chunk >> ELSE <<>>)
             \o ChunksFrom(doc, text_chunks, i + 1, now)

RECURSIVE split_documents(_, _)
split_documents(documents, now) ==
    IF documents = <<>> THEN <<>>
    ELSE ChunksFrom(Head(documents), TextChunks(Head(documents).content), 0, now)
         \o split_documents(Tail(documents), now)

IdsOf(entries) == {entries[i].id : i \in 1..Len(entries)}

\* a filter that takes every chunk for new
FilterNothing(chunks, existing_ids) == chunks

\* the new chunks of an ingestion: those whose id is not among existing_ids
FilterNewChunks(chunks, existing_ids) ==
    SelectSeq(chunks, LAMBDA chunk : chunk.id \notin existing_ids)

\* collection.add: raises on an id repeated within the call; an id that is
\* already stored is left as it is (chromadb >= 0.4)
HasDuplicateIds(entries) ==
    \E i, j \in 1..Len(entries) : i < j /\ entries[i].id = entries[j].id

\* collection.upsert in the place of collection.add: a stored id is overwritten
CollectionUpsert(coll, entries) ==
    [i \in 1..Len(coll) |->
        IF \E k \in 1..Len(entries) : entries[k].id = coll[i].id
        THEN entries[CHOOSE k \in 1..Len(entries) : entries[k].id = coll[i].id]
        ELSE coll[i]]
    \o SelectSeq(entries, LAMBDA e : e.id \notin IdsOf(coll))

\* a collection.add that puts the entries in the place of the stored entries
\* of their sources
CollectionAddReplacingSource(coll, entries) ==
    SelectSeq(coll, LAMBDA e : \A k \in 1..Len(entries) :
                                  entries[k].metadata.source # e.metadata.source)
    \o SelectSeq(entries, LAMBDA e : e.id \notin IdsOf(coll))

CollectionAdd(coll, entries) ==
    coll \o SelectSeq(entries, LAMBDA e : e.id \notin IdsOf(coll))

\* collection.delete that removes the first of the ids only
CollectionDeleteFirst(coll, ids) ==
    IF coll = <<>> THEN coll
    ELSE SelectSeq(coll, LAMBDA e : e.id \notin (ids \cap {coll[1].id}))

\* collection.delete(ids=...)
CollectionDelete(coll, ids) == SelectSeq(coll, LAMBDA e : e.id \notin ids)

\* collection.get() without the where filter
CollectionGetAll(coll, source) == coll

\* collection.get(where={"source": source})
CollectionGetWhere(coll, source) ==
    SelectSeq(coll, LAMBDA e : "source" \in DOMAIN e.metadata
                               /\ e.metadata.source = source)

\* squared L2 distance, the collection's default metric
Distance(u, v) ==
    (u[1] - v[1]) * (u[1] - v[1]) + (u[2] - v[2]) * (u[2] - v[2])

Min(a, b) == IF a <= b THEN a ELSE b

\* a collection.query that answers with min(n, count) entries of its own
\* choice, in an order of its own choice
QueryRankingsAnyOrder(coll, q, n) ==
    {r \in [1..Min(n, Len(coll)) -> 1..Len(coll)] :
        \A i, j \in 1..Min(n, Len(coll)) : i < j => r[i] # r[j]}

\* the rankings of m entries that continue r: each place holds one of the
\* nearest of the entries not yet listed
RECURSIVE NearestFirst(_, _, _)
NearestFirst(dist, m, r) ==
    IF Len(r) >= m THEN {r}
    ELSE LET rest == (DOMAIN dist) \ Range(r)
             next == {k \in rest : \A j \in rest : dist[k] <= dist[j]}
         IN  UNION {NearestFirst(dist, m, Append(r, k)) : k \in next}

\* collection.query: the positions of the min(n, count) nearest entries by
\* ascending distance; the order among equally distant entries is not fixed
QueryRankings(coll, q, n) ==
    NearestFirst([i \in 1..Len(coll) |-> Distance(q, coll[i].embedding)],
                 Min(n, Len(coll)), <<>>)

EmptyResults == [documents |-> <<>>, metadatas |-> <<>>, distances |-> <<>>]

\* search_similar_chunks answering a failed collection.query with the result
\* of a query that succeeded
search_similar_chunks_unreported(coll, query, r, faults) ==
    LET query_embedding == generate_embeddings(<< query >>, "encode" \in faults) IN
    IF query_embedding = <<>> THEN EmptyResults
    ELSE [ids       |-> << [i \in 1..Len(r) |-> coll[r[i]].id] >>,
          documents |-> << [i \in 1..Len(r) |-> coll[r[i]].document] >>,
          metadatas |-> << [i \in 1..Len(r) |-> coll[r[i]].metadata] >>,
          distances |-> << [i \in 1..Len(r) |->
                               Distance(query_embedding[1], coll[r[i]].embedding)] >>]

\* search_similar_chunks: the query result for ranking r, or the empty
\* result when the embedding or the query fails
search_similar_chunks(coll, query, r, faults) ==
    LET query_embedding == generate_embeddings(<< query >>, "encode" \in faults) IN
    IF query_embedding = <<>> \/ "query" \in faults THEN EmptyResults
    ELSE [ids       |-> << [i \in 1..Len(r) |-> coll[r[i]].id] >>,
          documents |-> << [i \in 1..Len(r) |-> coll[r[i]].document] >>,
          metadatas |-> << [i \in 1..Len(r) |-> coll[r[i]].metadata] >>,
          distances |-> << [i \in 1..Len(r) |->
                               Distance(query_embedding[1], coll[r[i]].embedding)] >>]

NoStats == <<>>
NoHybrid == <<>>

\* the operation that has just ended ran to its end: it returned True, or no
\* collaborator failed in it
Completed == lastRet = "True" \/ lastOp.faults = {}

\* what a call of operation name (an ingestion of documents, or <<>>) records
\* of the operation it follows: whether that was a clear_collection that
\* returned True, and then how many entries it removed; and whether it was a
\* completed ingestion of the same documents, and then the chunk ids it
\* produced
Follows(name, documents) ==
    LET again == /\ name = "add"
                 /\ lastOp.name = "add"
                 /\ lastOp.documents = documents
                 /\ Completed
        clear == lastOp.name = "clear" /\ lastRet = "True"
    IN  [after_clear |-> clear,
         cleared     |-> IF clear THEN Len(before) ELSE 0,
         same_add    |-> again,
         ids         |-> IF again THEN lastIds ELSE <<>>]

\* the browser sessions, each with its own DocumentEmbedder over the
\* collection of the one persist directory
Sessions == {"s1", "s2"}

\* a session that is in no mutation
IdleSession == [pc |-> "idle", chunks |-> <<>>, ids |-> {}, source |-> ""]

\* an object in st.session_state: its class, which construction made it, and
\* the construction that made the object it wraps; None
Object(class, id, wraps) == [class |-> class, id |-> id, wraps |-> wraps]

None == Object("None", 0, 0)

\* init_session_state; attempts counts the runs of initialize_system
SessionDefaults ==
    [embedder           |-> None,
     chat_manager       |-> None,
     chat_interface     |-> None,
     hybrid_search      |-> None,
     system_initialized |-> FALSE,
     attempts           |-> 0]

\* an initialize_system that sets system_initialized before the constructors
InitializedFlagFirst(state, attempt, failed, client) ==
    [embedder           |-> IF failed > 1
                            THEN Object("DocumentEmbedder", attempt, 0)
                            ELSE state.embedder,
     chat_manager       |-> IF failed > 2
                            THEN Object("ChatManager", attempt,
                                        IF client THEN attempt ELSE 0)
                            ELSE state.chat_manager,
     chat_interface     |-> IF failed > 3
                            THEN Object("StreamlitChatInterface", attempt, attempt)
                            ELSE state.chat_interface,
     hybrid_search      |-> IF failed > 4
                            THEN Object("HybridSearch", attempt, attempt)
                            ELSE state.hybrid_search,
     system_initialized |-> TRUE,
     attempts           |-> attempt]

\* st.session_state after the run number attempt of initialize_system in
\* which the first failed of the constructors is the one of number failed
\* (1 embedder, 2 chat manager, 3 chat interface, 4 hybrid search, 5 one of
\* the later ones, 6 none).  The chat manager wraps its Groq client, or
\* nothing when it could not make one.
InitializedBy(state, attempt, failed, client) ==
    [embedder           |-> IF failed > 1
                            THEN Object("DocumentEmbedder", attempt, 0)
                            ELSE state.embedder,
     chat_manager       |-> IF failed > 2
                            THEN Object("ChatManager", attempt,
                                        IF client THEN attempt ELSE 0)
                            ELSE state.chat_manager,
     chat_interface     |-> IF failed > 3
                            THEN Object("StreamlitChatInterface", attempt, attempt)
                            ELSE state.chat_interface,
     hybrid_search      |-> IF failed > 4
                            THEN Object("HybridSearch", attempt, attempt)
                            ELSE state.hybrid_search,
     system_initialized |-> failed > 5,
     attempts           |-> attempt]

\* PersistentContext.__init__
NewContext ==
    [current_topic        |-> "",
     referenced_documents |-> <<>>,
     key_entities         |-> <<>>,
     conversation_flow    |-> <<>>]

\* the system as initialize_system leaves it when no constructor fails, with
\* no conversation yet and no session in a mutation
NoActivity ==
    /\ sessions = [s \in Sessions |-> IdleSession]
    /\ conversation_history = <<>>
    /\ conversation_context = NewContext

SystemReady ==
    /\ NoActivity
    /\ session_state = InitializedBy(SessionDefaults, 1, 6, TRUE)

Init ==
    /\ SystemReady
    /\ collection = <<>>
    /\ clock = 0
    /\ lastOp = [name |-> "init", faults |-> {}, calls |-> <<>>]
    /\ lastRet = "none"
    /\ lastMsg = "none"
    /\ lastIds = <<>>
    /\ lastResult = <<>>
    /\ lastStats = NoStats
    /\ lastHybrid = NoHybrid
    /\ before = <<>>
    /\ prev = [after_clear |-> FALSE, cleared |-> 0, same_add |-> FALSE,
               ids |-> <<>>]

\* entries for all the new chunks but the last
NewEntriesButLast(new_chunks, embeddings) ==
    [i \in 1..(Len(new_chunks) - 1) |->
        [id        |-> new_chunks[i].id,
         document  |-> new_chunks[i].content,
         metadata  |-> new_chunks[i].metadata,
         embedding |-> embeddings[i]]]

\* the entries handed to collection.add: ids, embeddings, documents, metadatas
NewEntries(new_chunks, embeddings) ==
    [i \in 1..Len(new_chunks) |->
        [id        |-> new_chunks[i].id,
         document  |-> new_chunks[i].content,
         metadata  |-> new_chunks[i].metadata,
         embedding |-> embeddings[i]]]

AddFaults == SUBSET {"get", "encode", "add"}

\* add_documents_to_vectorstore(documents); faults, the calls that raise in
\* it: collection.get, encode, collection.add.  A call that is not reached
\* cannot raise.
add_documents_to_vectorstore(documents, faults) ==
    /\ clock < MaxClock
    /\ LET chunks       == split_documents(documents, clock + 1)
           existing_ids == IF "get" \in faults THEN {} ELSE IdsOf(collection)
           new_chunks   == FilterNewChunks(chunks, existing_ids)
           chunk_texts  == [i \in 1..Len(new_chunks) |-> new_chunks[i].content]
           embeddings   == generate_embeddings(chunk_texts, "encode" \in faults)
           entries      == NewEntries(new_chunks, embeddings)
       IN  /\ "get" \in faults => chunks # <<>>
           /\ "encode" \in faults => new_chunks # <<>>
           /\ "add" \in faults => new_chunks # <<>> /\ embeddings # <<>>
           /\ clock' = clock + 1
           /\ lastOp' = [name |-> "add", documents |-> documents, faults |-> faults,
                         calls |->
                             (IF chunks # <<>> THEN << "get" >> ELSE <<>>)
                             \o (IF new_chunks # <<>> THEN << "encode" >> ELSE <<>>)
                             \o (IF new_chunks # <<>> /\ embeddings # <<>>
                                 THEN << "add" >> ELSE <<>>)]
           /\ lastIds' = [i \in 1..Len(chunks) |-> chunks[i].id]
           /\ lastResult' = chunks
           /\ before' = collection
           /\ IF chunks = <<>>
              THEN /\ lastRet' = "False" /\ lastMsg' = "warning"
                   /\ UNCHANGED collection
              ELSE IF new_chunks = <<>>
              THEN /\ lastRet' = "True" /\ lastMsg' = "info"
                   /\ UNCHANGED collection
              ELSE IF embeddings = <<>>
              THEN /\ lastRet' = "False" /\ lastMsg' = "error"
                   /\ UNCHANGED collection
              ELSE IF "add" \in faults \/ HasDuplicateIds(entries)
              THEN /\ lastRet' = "False" /\ lastMsg' = "error"
                   /\ UNCHANGED collection
              ELSE /\ lastRet' = "True" /\ lastMsg' = "success"
                   /\ collection' = CollectionAdd(collection, entries)
    /\ lastStats' = NoStats
    /\ lastHybrid' = NoHybrid
    /\ prev' = Follows("add", documents)

AddDocuments ==
    /\ \E documents \in Batches, faults \in AddFaults :
           add_documents_to_vectorstore(documents, faults)
    /\ UNCHANGED appVars

StatsFaults == SUBSET {"get"}

\* the dict get_collection_stats builds from collection.get()
StatsOf(data) ==
    IF Len(data) = 0
    THEN [total_chunks     |-> 0,
          unique_documents |-> 0,
          collection_name  |-> CollectionName]
    ELSE LET sources == {data[i].metadata.source :
                            i \in {k \in 1..Len(data) :
                                      "source" \in DOMAIN data[k].metadata}}
         IN  [total_chunks        |-> Len(data),
              unique_documents    |-> Cardinality(sources),
              sources             |-> sources,
              collection_name     |-> CollectionName,
              embedding_dimension |-> EmbeddingDimension]

\* get_collection_stats(); fault: collection.get raises, the result is {}
get_collection_stats(faults) ==
    /\ lastOp' = [name |-> "stats", faults |-> faults, calls |-> << "get" >>]
    /\ lastResult' = <<>>
    /\ lastRet' = "dict"
    /\ lastStats' = IF "get" \in faults THEN <<>> ELSE StatsOf(collection)
    /\ lastMsg' = IF "get" \in faults THEN "error" ELSE "none"
    /\ lastIds' = <<>>
    /\ lastHybrid' = NoHybrid
    /\ before' = collection
    /\ prev' = Follows("stats", <<>>)
    /\ UNCHANGED <<collection, clock>>

GetStats ==
    /\ \E faults \in StatsFaults : get_collection_stats(faults)
    /\ UNCHANGED appVars

DeleteFaults == SUBSET {"get", "delete"}

\* clear_collection(); faults: collection.get raises, collection.delete raises
clear_collection(faults) ==
    /\ "delete" \in faults => "get" \notin faults /\ IdsOf(collection) # {}
    /\ lastOp' = [name |-> "clear", faults |-> faults,
                  calls |-> << "get" >>
                            \o (IF "get" \notin faults /\ IdsOf(collection) # {}
                                THEN << "delete" >> ELSE <<>>)]
    /\ lastResult' = <<>>
    /\ IF "get" \in faults
       THEN /\ lastRet' = "False" /\ lastMsg' = "error"
            /\ UNCHANGED collection
       ELSE IF IdsOf(collection) = {}
       THEN /\ lastRet' = "True" /\ lastMsg' = "info"
            /\ UNCHANGED collection
       ELSE IF "delete" \in faults
       THEN /\ lastRet' = "False" /\ lastMsg' = "error"
            /\ UNCHANGED collection
       ELSE /\ lastRet' = "True" /\ lastMsg' = "success"
            /\ collection' = CollectionDelete(collection, IdsOf(collection))
    /\ lastIds' = <<>>
    /\ lastStats' = NoStats
    /\ lastHybrid' = NoHybrid
    /\ before' = collection
    /\ prev' = Follows("clear", <<>>)
    /\ UNCHANGED clock

ClearCollection ==
    /\ \E faults \in DeleteFaults : clear_collection(faults)
    /\ UNCHANGED appVars

Sources == Filenames \cup {"missing.pdf"}

\* the outcome of delete_document_by_source(source) on coll: the value
\* returned, the level of the message shown, and the collection left
DeleteOutcome(coll, source, faults) ==
    LET results == CollectionGetWhere(coll, source) IN
    IF "get" \in faults
    THEN [ret |-> "False", msg |-> "error", coll |-> coll, calls |-> << "get" >>]
    ELSE IF IdsOf(results) = {}
    THEN [ret |-> "False", msg |-> "warning", coll |-> coll, calls |-> << "get" >>]
    ELSE IF "delete" \in faults
    THEN [ret |-> "False", msg |-> "error", coll |-> coll,
          calls |-> << "get", "delete" >>]
    ELSE [ret  |-> "True", msg |-> "success",
          coll |-> CollectionDelete(coll, IdsOf(results)),
          calls |-> << "get", "delete" >>]

\* delete_document_by_source(source); faults as for clear_collection
delete_document_by_source(source, faults) ==
    /\ "delete" \in faults =>
           "get" \notin faults /\ IdsOf(CollectionGetWhere(collection, source)) # {}
    /\ LET outcome == DeleteOutcome(collection, source, faults) IN
       /\ lastOp' = [name |-> "delete", source |-> source, faults |-> faults,
                     calls |-> outcome.calls]
       /\ lastRet' = outcome.ret
       /\ lastMsg' = outcome.msg
       /\ collection' = outcome.coll
    /\ lastIds' = <<>>
    /\ lastResult' = <<>>
    /\ lastStats' = NoStats
    /\ lastHybrid' = NoHybrid
    /\ before' = collection
    /\ prev' = Follows("delete", <<>>)
    /\ UNCHANGED clock

DeleteBySource ==
    /\ \E source \in Sources, faults \in DeleteFaults :
           delete_document_by_source(source, faults)
    /\ UNCHANGED appVars

(***************************************************************************)
(* HybridSearch.hybrid_search (src/src/advanced_features.py).              *)
(***************************************************************************)
\* sorted(results, key=keyword_score, reverse=True): stable, so x goes after
\* every result whose score is not smaller.  All scores of one search share
\* the denominator max(len(query_keywords), 1).
\* an insertion that puts x before the results of the same score
RECURSIVE InsertByScoreUnstable(_, _)
InsertByScoreUnstable(sorted, x) ==
    IF sorted = <<>> THEN << x >>
    ELSE IF Head(sorted).keyword_score.num > x.keyword_score.num
         THEN << Head(sorted) >> \o InsertByScoreUnstable(Tail(sorted), x)
         ELSE << x >> \o sorted

RECURSIVE InsertByScore(_, _)
InsertByScore(sorted, x) ==
    IF sorted = <<>> THEN << x >>
    ELSE IF Head(sorted).keyword_score.num >= x.keyword_score.num
         THEN << Head(sorted) >> \o InsertByScore(Tail(sorted), x)
         ELSE << x >> \o sorted

RECURSIVE SortByScore(_, _)
SortByScore(results, acc) ==
    IF results = <<>> THEN acc
    ELSE SortByScore(Tail(results), InsertByScore(acc, Head(results)))

Max(a, b) == IF a >= b THEN a ELSE b

\* the loop of keyword_search with a result for every document, matched or not
RECURSIVE KeywordMatchesUnfiltered(_, _)
KeywordMatchesUnfiltered(query_keywords, documents) ==
    IF documents = <<>> THEN <<>>
    ELSE LET doc     == Head(documents)
             content == doc.documents[1]
             matches == query_keywords \cap keywords_of[content]
         IN  << [content          |-> content,
                 metadata         |-> doc.metadatas[1],
                 keyword_score    |-> [num |-> Cardinality(matches),
                                       den |-> Max(Cardinality(query_keywords), 1)],
                 matched_keywords |-> matches] >>
             \o KeywordMatchesUnfiltered(query_keywords, Tail(documents))

\* the loop of keyword_search stopped at the first document that matches
RECURSIVE KeywordMatchesFirst(_, _)
KeywordMatchesFirst(query_keywords, documents) ==
    IF documents = <<>> THEN <<>>
    ELSE LET doc     == Head(documents)
             content == doc.documents[1]
             matches == query_keywords \cap keywords_of[content]
         IN  IF matches # {}
             THEN << [content          |-> content,
                      metadata         |-> doc.metadatas[1],
                      keyword_score    |-> [num |-> Cardinality(matches),
                                            den |-> Max(Cardinality(query_keywords), 1)],
                      matched_keywords |-> matches] >>
             ELSE KeywordMatchesFirst(query_keywords, Tail(documents))

\* the loop of keyword_search over documents, each {documents: [text],
\* metadatas: [metadata]}; a document without a match adds no result
RECURSIVE KeywordMatches(_, _)
KeywordMatches(query_keywords, documents) ==
    IF documents = <<>> THEN <<>>
    ELSE LET doc     == Head(documents)
             content == doc.documents[1]
             matches == query_keywords \cap keywords_of[content]
             rest    == KeywordMatches(query_keywords, Tail(documents))
         IN  IF matches # {}
             THEN << [content          |-> content,
                      metadata         |-> doc.metadatas[1],
                      keyword_score    |-> [num |-> Cardinality(matches),
                                            den |-> Max(Cardinality(query_keywords), 1)],
                      matched_keywords |-> matches] >> \o rest
             ELSE rest

keyword_search(query, documents) ==
    SortByScore(KeywordMatches(keywords_of[query], documents), <<>>)

\* the documents list taken from the wrong level of the query result
ResultDocumentsFlat(results) == <<>>

\* the documents list of a query result: results.get('documents', [[]])[0]
\* when results.get('documents') is truthy, else []
ResultDocuments(results) ==
    IF results.documents # <<>> THEN results.documents[1] ELSE <<>>

\* total_unique counted over chunk identities instead of content strings
TotalUniqueById(keyword_results, semantic_results) ==
    LET key(m) == << m.hash, m.chunk_index >> IN
    Cardinality(
        {key(keyword_results[i].metadata) : i \in 1..Len(keyword_results)}
        \cup (IF semantic_results.metadatas = <<>> THEN {}
              ELSE {key(semantic_results.metadatas[1][i]) :
                       i \in 1..Len(semantic_results.metadatas[1])}))

\* len(set(keyword contents + semantic documents))
TotalUnique(keyword_results, semantic_results) ==
    Cardinality(Range([i \in 1..Len(keyword_results) |-> keyword_results[i].content]
                      \o ResultDocuments(semantic_results)))

HybridSummary(keyword_results, semantic_results) ==
    [semantic_count |-> Len(ResultDocuments(semantic_results)),
     keyword_count  |-> Len(keyword_results),
     total_unique   |-> TotalUnique(keyword_results, semantic_results)]

HybridFaults == SUBSET {"encode", "query", "scan"}

\* hybrid_search(query, n_results); faults: encode raises, collection.query
\* raises (it is reached when encode did not), the collection.get() of the
\* keyword path raises.  r is the ranking collection.query answers with.
hybrid_search(query, n_results, faults, r) ==
    /\ "query" \in faults => "encode" \notin faults
    /\ lastOp' = [name |-> "hybrid", query |-> query, n_results |-> n_results,
                  faults |-> faults,
                  calls |-> << "encode" >>
                            \o (IF "encode" \notin faults THEN << "query" >> ELSE <<>>)
                            \o << "scan" >>]
    /\ lastResult' = <<>>
    /\ LET semantic_results == search_similar_chunks(collection, query, r, faults)
           all_docs         == collection
           structured_docs  ==
               [i \in 1..Len(all_docs) |->
                   [documents |-> << all_docs[i].document >>,
                    metadatas |-> << all_docs[i].metadata >>]]
           keyword_results  == keyword_search(query, structured_docs)
       IN  IF "scan" \in faults
           THEN \* the exception of collection.get() leaves hybrid_search
                /\ lastRet' = "raised"
                /\ lastHybrid' = NoHybrid
           ELSE /\ lastRet' = "dict"
                /\ lastHybrid' =
                       [semantic       |-> semantic_results,
                        keyword        |-> keyword_results,
                        hybrid_summary |-> HybridSummary(keyword_results,
                                                         semantic_results)]
    /\ lastMsg' = IF faults \cap {"encode", "query"} # {} THEN "error" ELSE "none"
    /\ lastIds' = <<>>
    /\ lastStats' = NoStats
    /\ before' = collection
    /\ prev' = Follows("hybrid", <<>>)
    /\ UNCHANGED <<collection, clock>>

\* the ranking is of no account when the semantic path fails
HybridSearch ==
    /\ \E query \in Queries, n_results \in 1..MaxK :
           LET rankings == QueryRankings(collection, encode[query], n_results) IN
           \E faults \in HybridFaults :
               \E r \in IF faults \cap {"encode", "query"} = {}
                         THEN rankings ELSE { <<>> } :
                   hybrid_search(query, n_results, faults, r)
    /\ UNCHANGED appVars

Next ==
    \/ AddDocuments
    \/ GetStats
    \/ ClearCollection
    \/ DeleteBySource
    \/ HybridSearch

Spec == Init /\ [][Next]_vars

(***************************************************************************)
(* PDFLoader (src/src/loader.py).  The bytes of an uploaded file are known *)
(* by a name; what the two extractors get out of them depends on them      *)
(* alone.                                                                  *)
(***************************************************************************)
\* max_files, the default of PDFLoader.__init__
MaxFiles == 5
\* the length under which the text of pdfplumber is given up for PyPDF2's
MinPlumberLength == 100

\* pdf1: both extractors get the text; pdf2: pdfplumber raises and PyPDF2
\* gets the text; scan: a scanned image, no extractor gets any text
FileContents == {"pdf1", "pdf2", "scan"}

UploadNames == Filenames \cup {"notes.txt"}

UploadedFiles == [name : UploadNames, content : FileContents]

\* the uploads: up to two files of different names
Uploads ==
    {u \in UNION {[1..n -> UploadedFiles] : n \in 0..Cardinality(Filenames)} :
        \A i, j \in 1..Len(u) : i # j => u[i].name # u[j].name}

\* hashlib.md5(content).hexdigest(): different bytes, different digests
generate_file_hash(content) ==
    IF content = "pdf1" THEN "h1" ELSE IF content = "pdf2" THEN "h2" ELSE "h0"

\* validate_files: some files, no more than max_files, each named *.pdf; the
\* sizes of the files of the model are within the limits
validate_files(files) ==
    /\ files # <<>>
    /\ Len(files) <= MaxFiles
    /\ \A i \in 1..Len(files) : files[i].name \in Filenames

extract_text_pdfplumber(pdf_content) ==
    IF pdf_content = "pdf1" THEN Strip(TextOf("h1")) ELSE <<>>

extract_text_pypdf2(pdf_content) ==
    IF pdf_content = "pdf1" THEN Strip(TextOf("h1"))
    ELSE IF pdf_content = "pdf2" THEN Strip(TextOf("h2"))
    ELSE <<>>

\* f"[Archivo: {filename} - No se pudo extraer texto]"
NoTextNotice(filename) ==
    << "[", "A", "r", "c", "h", "i", "v", "o", ":", " ", filename, " ", "-", " ",
       "N", "o", " ", "s", "e", " ", "p", "u", "d", "o", " ",
       "e", "x", "t", "r", "a", "e", "r", " ", "t", "e", "x", "t", "o", "]" >>

\* extract_text_from_pdf: the text of pdfplumber, or of PyPDF2 when that is
\* empty or short, or a notice in the place of the text when there is none
extract_text_from_pdf(pdf_content, filename) ==
    LET plumbed == extract_text_pdfplumber(pdf_content)
        text    == IF plumbed = <<>> \/ Len(plumbed) < MinPlumberLength
                   THEN extract_text_pypdf2(pdf_content)
                   ELSE plumbed
    IN  IF text = <<>> THEN NoTextNotice(filename) ELSE text

\* the loop of load_documents over the files: a document for each file with
\* text, and the message shown for each file
RECURSIVE LoadFiles(_)
LoadFiles(files) ==
    IF files = <<>> THEN [documents |-> <<>>, reports |-> <<>>]
    ELSE LET file      == Head(files)
             file_hash == generate_file_hash(file.content)
             text      == extract_text_from_pdf(file.content, file.name)
             rest      == LoadFiles(Tail(files))
             document  == [filename  |-> file.name,
                           content   |-> text,
                           file_hash |-> file_hash,
                           metadata  |-> [source |-> file.name, type |-> "pdf",
                                          hash   |-> file_hash]]
         IN  IF text # <<>> /\ Len(Strip(text)) > 0
             THEN [documents |-> << document >> \o rest.documents,
                   reports   |-> << "success" >> \o rest.reports]
             ELSE [documents |-> rest.documents,
                   reports   |-> << "error" >> \o rest.reports]

\* load_documents(uploaded_files): nothing is loaded of files that are not valid
load_documents(uploaded_files) ==
    IF validate_files(uploaded_files) THEN LoadFiles(uploaded_files)
    ELSE [documents |-> <<>>, reports |-> <<>>]

(***************************************************************************)
(* load_documents, split_documents and keyword_search called directly, on  *)
(* the uploads, texts and corpora above.  None of them reads or changes    *)
(* the collection.                                                         *)
(***************************************************************************)
\* A direct call is made on the state after construction: the three
\* functions keep nothing from one call to the next, so a behaviour is one
\* call
NothingCalled == lastOp.name = "init"

\* what every direct call leaves of the record of the last operation
DirectCall ==
    /\ lastIds' = <<>>
    /\ lastStats' = NoStats
    /\ lastHybrid' = NoHybrid
    /\ before' = collection
    /\ UNCHANGED <<collection, clock>>
    /\ UNCHANGED appVars

LoadDocuments ==
    /\ NothingCalled
    /\ \E uploaded_files \in Uploads :
        LET loaded == load_documents(uploaded_files) IN
        /\ lastOp' = [name |-> "load", uploaded_files |-> uploaded_files,
                      reports |-> loaded.reports, faults |-> {}, calls |-> <<>>]
        /\ lastResult' = loaded.documents
        /\ lastRet' = "list"
        /\ lastMsg' = IF ~validate_files(uploaded_files) THEN "error"
                      ELSE IF loaded.documents # <<>> THEN "info"
                      ELSE "error"
        /\ prev' = Follows("load", <<>>)
        /\ DirectCall

SplitDocuments ==
    /\ NothingCalled
    /\ \E text \in Texts :
        LET documents == << [filename  |-> "a.pdf",
                             content   |-> text,
                             file_hash |-> "h1",
                             metadata  |-> [source |-> "a.pdf", type |-> "pdf",
                                            hash   |-> "h1"]] >>
        IN  /\ lastOp' = [name |-> "split", documents |-> documents,
                          faults |-> {}, calls |-> <<>>]
            /\ lastResult' = split_documents(documents, clock + 1)
            /\ lastRet' = "list"
            /\ lastMsg' = "none"
            /\ prev' = Follows("split", <<>>)
            /\ DirectCall

KeywordSearch ==
    /\ NothingCalled
    /\ \E query \in KeywordQueries, documents \in Corpora :
        /\ lastOp' = [name |-> "keyword_search", query |-> query,
                      documents |-> documents, faults |-> {}, calls |-> <<>>]
        /\ lastResult' = keyword_search(query, documents)
        /\ lastRet' = "list"
        /\ lastMsg' = "none"
        /\ prev' = Follows("keyword_search", <<>>)
        /\ DirectCall

\* the batches generate_embeddings is called with directly: up to MaxCorpus
\* texts, the empty batch among them
TextBatches == UNION {[1..n -> CorpusPassages] : n \in 0..MaxCorpus}

\* generate_embeddings(texts) called directly; encode raises or not
GenerateEmbeddings ==
    /\ NothingCalled
    /\ \E texts \in TextBatches, encodeFails \in BOOLEAN :
        /\ lastOp' = [name |-> "generate_embeddings", texts |-> texts,
                      faults |-> IF encodeFails THEN {"encode"} ELSE {},
                      calls |-> << "encode" >>]
        /\ lastResult' = generate_embeddings(texts, encodeFails)
        /\ lastRet' = "list"
        /\ lastMsg' = IF encodeFails THEN "error" ELSE "none"
        /\ prev' = Follows("generate_embeddings", <<>>)
        /\ DirectCall

NextDirect ==
    \/ LoadDocuments
    \/ SplitDocuments
    \/ KeywordSearch
    \/ GenerateEmbeddings

SpecDirect == Init /\ [][NextDirect]_vars

(***************************************************************************)
(* search_similar_chunks called on the collection the embedder found in    *)
(* its persist directory when it was constructed.                          *)
(***************************************************************************)
\* the model the stored vectors were made with: the one of the embedder, or
\* one of another dimension
StoredDimensions == {EmbeddingDimension, EmbeddingDimension + 1}

StoredEmbedding(text, dimension) ==
    [k \in 1..dimension |-> IF k <= EmbeddingDimension THEN Embed(text)[k] ELSE 0]

\* the collections get_collection may load: up to MaxCorpus chunks of one
\* document, all with vectors of one dimension
StoredCollections ==
    {[i \in 1..Len(c) |->
         [id        |-> ChunkId("h1", i - 1),
          document  |-> c[i],
          metadata  |-> [source |-> "a.pdf", chunk_index |-> i - 1],
          embedding |-> StoredEmbedding(c[i], dimension)]] :
        c \in TextBatches, dimension \in StoredDimensions}

\* the index holds vectors of another dimension than that of the model
DimensionMismatch(coll) ==
    \E i \in 1..Len(coll) : Len(coll[i].embedding) # EmbeddingDimension

InitStored ==
    /\ SystemReady
    /\ collection \in StoredCollections
    /\ clock = 0
    /\ lastOp = [name |-> "init", faults |-> {}, calls |-> <<>>]
    /\ lastRet = "none"
    /\ lastMsg = "none"
    /\ lastIds = <<>>
    /\ lastResult = <<>>
    /\ lastStats = NoStats
    /\ lastHybrid = NoHybrid
    /\ before = collection
    /\ prev = [after_clear |-> FALSE, cleared |-> 0, same_add |-> FALSE,
               ids |-> <<>>]

SearchFaults == SUBSET {"encode", "query"}

\* search_similar_chunks(query, n_results) called directly.  faults: encode
\* raises; collection.query raises, which it is reached to do, and which it
\* does whenever the vector of the query has not the dimension of the
\* vectors of the index.  r is the ranking collection.query answers with.
SearchSimilarChunks ==
    /\ NothingCalled
    /\ \E query \in Queries, n_results \in 1..MaxK, faults \in SearchFaults :
        /\ "query" \in faults => "encode" \notin faults
        /\ DimensionMismatch(collection) /\ "encode" \notin faults
               => "query" \in faults
        /\ \E r \in IF faults = {}
                     THEN QueryRankings(collection, encode[query], n_results)
                     ELSE { <<>> } :
            /\ lastOp' = [name |-> "search", query |-> query,
                          n_results |-> n_results, faults |-> faults,
                          calls |-> << "encode" >>
                                    \o (IF "encode" \notin faults
                                        THEN << "query" >> ELSE <<>>)]
            /\ lastResult' = search_similar_chunks(collection, query, r, faults)
            /\ lastRet' = "dict"
            /\ lastMsg' = IF faults # {} THEN "error" ELSE "none"
            /\ prev' = Follows("search", <<>>)
            /\ DirectCall

NextStored == SearchSimilarChunks

SpecStored == InitStored /\ [][NextStored]_vars

(***************************************************************************)
(* Two browser sessions on one collection.  Every session has its own      *)
(* DocumentEmbedder (st.session_state.embedder) and its own script thread; *)
(* the embedders open the same persist directory.  A mutation is two       *)
(* steps, the collection.get it reads with and the collection.add or       *)
(* collection.delete it writes with; nothing in the code holds a lock over *)
(* the two, so steps of the sessions come in any order.                    *)
(***************************************************************************)
\* what a step of a session leaves of the record of the last operation
SessionStep(s, name, ret, msg, calls) ==
    /\ lastOp' = [name |-> name, session |-> s, faults |-> {}, calls |-> calls]
    /\ lastRet' = ret
    /\ lastMsg' = msg
    /\ lastIds' = <<>>
    /\ lastResult' = <<>>
    /\ lastStats' = NoStats
    /\ lastHybrid' = NoHybrid
    /\ before' = collection
    /\ prev' = Follows(name, <<>>)
    /\ UNCHANGED <<conversation_history, conversation_context, session_state>>

\* add_documents_to_vectorstore up to existing_ids = set(existing_data['ids'])
AddRead(s) ==
    /\ sessions[s].pc = "idle"
    /\ clock < MaxClock
    /\ \E documents \in Batches :
        /\ sessions' = [sessions EXCEPT ![s] =
                            [pc     |-> "add",
                             chunks |-> split_documents(documents, clock + 1),
                             ids    |-> IdsOf(collection),
                             source |-> ""]]
        /\ clock' = clock + 1
        /\ UNCHANGED collection
        /\ SessionStep(s, "add_read", "none", "none", << "get" >>)

\* the rest of add_documents_to_vectorstore: the chunks whose ids were not
\* read are embedded and handed to collection.add
AddWrite(s) ==
    /\ sessions[s].pc = "add"
    /\ LET new_chunks  == FilterNewChunks(sessions[s].chunks, sessions[s].ids)
           chunk_texts == [i \in 1..Len(new_chunks) |-> new_chunks[i].content]
           embeddings  == generate_embeddings(chunk_texts, FALSE)
           entries     == NewEntries(new_chunks, embeddings)
       IN  IF new_chunks = <<>>
           THEN /\ UNCHANGED collection
                /\ SessionStep(s, "session_add", "True", "info", <<>>)
           ELSE IF HasDuplicateIds(entries)
           THEN /\ UNCHANGED collection
                /\ SessionStep(s, "session_add", "False", "error",
                               << "encode", "add" >>)
           ELSE /\ collection' = CollectionAdd(collection, entries)
                /\ SessionStep(s, "session_add", "True", "success",
                               << "encode", "add" >>)
    /\ sessions' = [sessions EXCEPT ![s] = IdleSession]
    /\ UNCHANGED clock

\* clear_collection up to data = self.collection.get()
ClearRead(s) ==
    /\ sessions[s].pc = "idle"
    /\ sessions' = [sessions EXCEPT ![s] =
                        [pc |-> "clear", chunks |-> <<>>,
                         ids |-> IdsOf(collection), source |-> ""]]
    /\ UNCHANGED <<collection, clock>>
    /\ SessionStep(s, "clear_read", "none", "none", << "get" >>)

\* the rest of clear_collection: the ids read are deleted
ClearWrite(s) ==
    /\ sessions[s].pc = "clear"
    /\ IF sessions[s].ids = {}
       THEN /\ UNCHANGED collection
            /\ SessionStep(s, "session_clear", "True", "info", <<>>)
       ELSE /\ collection' = CollectionDelete(collection, sessions[s].ids)
            /\ SessionStep(s, "session_clear", "True", "success", << "delete" >>)
    /\ sessions' = [sessions EXCEPT ![s] = IdleSession]
    /\ UNCHANGED clock

\* delete_document_by_source up to results = self.collection.get(where=...)
DeleteRead(s) ==
    /\ sessions[s].pc = "idle"
    /\ \E source \in Sources :
        sessions' = [sessions EXCEPT ![s] =
                        [pc |-> "delete", chunks |-> <<>>,
                         ids |-> IdsOf(CollectionGetWhere(collection, source)),
                         source |-> source]]
    /\ UNCHANGED <<collection, clock>>
    /\ SessionStep(s, "delete_read", "none", "none", << "get" >>)

\* the rest of delete_document_by_source: the ids read are deleted
DeleteWrite(s) ==
    /\ sessions[s].pc = "delete"
    /\ IF sessions[s].ids = {}
       THEN /\ UNCHANGED collection
            /\ SessionStep(s, "session_delete", "False", "warning", <<>>)
       ELSE /\ collection' = CollectionDelete(collection, sessions[s].ids)
            /\ SessionStep(s, "session_delete", "True", "success", << "delete" >>)
    /\ sessions' = [sessions EXCEPT ![s] = IdleSession]
    /\ UNCHANGED clock

NextSessions ==
    \E s \in Sessions :
        \/ AddRead(s)
        \/ AddWrite(s)
        \/ ClearRead(s)
        \/ ClearWrite(s)
        \/ DeleteRead(s)
        \/ DeleteWrite(s)

SpecSessions == Init /\ [][NextSessions]_vars

(***************************************************************************)
(* ChatManager (src/src/chat.py): the conversation history.  The           *)
(* timestamps of the entries are left out.                                 *)
(***************************************************************************)
\* largest number of questions asked in one conversation
MaxTurns == 2

UserQuestions == {"q1", "q2"}

\* what becomes of the call of the language model: it answers, or it raises
Outcomes == {"answered", "raised"}

\* generate_response(prompt): the text the model answers with, or the text
\* of the error when there is no client or the call raises
generate_response(client, outcome) ==
    IF ~client THEN "Error: Cliente de Groq no esta disponible"
    ELSE IF outcome = "raised" THEN "Error generando respuesta"
    ELSE "answer"

\* a chat_with_context that keeps the answers of the model only
chat_with_context_answers_only(history, user_question, relevant_chunks, response) ==
    history
    \o << [role |-> "user", content |-> user_question] >>
    \o (IF response = "answer"
        THEN << [role |-> "assistant", content |-> response,
                 context_chunks |-> Len(relevant_chunks)] >>
        ELSE <<>>)

\* chat_with_context: the history with the two entries it appends
chat_with_context(history, user_question, relevant_chunks, response) ==
    history
    \o << [role |-> "user", content |-> user_question] >>
    \o << [role |-> "assistant", content |-> response,
           context_chunks |-> Len(relevant_chunks)] >>

\* the collections of the conversations: none or one stored chunk
ChatCollections ==
    {c \in StoredCollections : Len(c) <= 1 /\ ~DimensionMismatch(c)}

InitChat ==
    /\ NoActivity
    /\ session_state \in {InitializedBy(SessionDefaults, 1, 6, client) :
                              client \in BOOLEAN}
    /\ collection \in ChatCollections
    /\ clock = 0
    /\ lastOp = [name |-> "init", faults |-> {}, calls |-> <<>>]
    /\ lastRet = "none"
    /\ lastMsg = "none"
    /\ lastIds = <<>>
    /\ lastResult = <<>>
    /\ lastStats = NoStats
    /\ lastHybrid = NoHybrid
    /\ before = collection
    /\ prev = [after_clear |-> FALSE, cleared |-> 0, same_add |-> FALSE,
               ids |-> <<>>]

\* what a call of the chat manager leaves of the record of the last
\* operation
ChatCall ==
    /\ lastIds' = <<>>
    /\ lastStats' = NoStats
    /\ lastHybrid' = NoHybrid
    /\ before' = collection
    /\ UNCHANGED <<collection, clock, sessions, conversation_context, session_state>>

\* chat_with_context(user_question, relevant_chunks, conversation_history),
\* called as chat_input_handler calls it: with the documents of a search and
\* with the history of the manager
ChatWithContext ==
    /\ Len(conversation_history) < 2 * MaxTurns
    /\ \E user_question \in UserQuestions, outcome \in Outcomes,
          relevant_chunks \in {<<>>} \cup {<< collection[i].document >> :
                                               i \in 1..Len(collection)} :
        LET client   == session_state.chat_manager.wraps # 0
            response == generate_response(client, outcome)
        IN  /\ ~client => outcome = "raised"
            /\ lastOp' = [name |-> "chat_with_context",
                          user_question |-> user_question,
                          relevant_chunks |-> relevant_chunks,
                          conversation_history |-> conversation_history,
                          faults |-> IF client /\ outcome = "raised"
                                     THEN {"create"} ELSE {},
                          calls |-> IF client THEN << "create" >> ELSE <<>>]
            /\ conversation_history' =
                   chat_with_context(conversation_history, user_question,
                                     relevant_chunks, response)
            /\ lastResult' = response
            /\ lastRet' = "str"
            /\ lastMsg' = IF client /\ outcome = "raised" THEN "error" ELSE "none"
            /\ prev' = Follows("chat_with_context", <<>>)
            /\ ChatCall

\* clear_history()
ClearHistory ==
    /\ lastOp' = [name |-> "clear_history",
                  conversation_history |-> conversation_history,
                  faults |-> {}, calls |-> <<>>]
    /\ conversation_history' = <<>>
    /\ lastResult' = <<>>
    /\ lastRet' = "None"
    /\ lastMsg' = "success"
    /\ prev' = Follows("clear_history", <<>>)
    /\ ChatCall

NextChat ==
    \/ ChatWithContext
    \/ ClearHistory

SpecChat == InitChat /\ [][NextChat]_vars

(***************************************************************************)
(* PersistentContext (src/src/advanced_features.py).  A question is known  *)
(* by the matches the four patterns find in it, a source by its filename;  *)
(* the clock gives the timestamps, one tick per call.                      *)
(***************************************************************************)
\* the interactions conversation_flow keeps and the entities key_entities
\* keeps, scaled down from 20 and 10
MaxFlow == 2
MaxKeyEntities == 2
\* the entities kept of one question, and the characters kept of a response
MaxExtracted == 5
ResponseCap == 200

Entities == {"e1", "e2", "e3"}

\* the questions: without entities, with one, with two
ContextQuestions ==
    { <<>>, << "e1" >>, << "e2" >>, << "e3" >>, << "e1", "e2" >> }

\* the responses: short, of ResponseCap characters, and longer
Responses ==
    {[i \in 1..n |-> "x"] : n \in {1, ResponseCap, ResponseCap + 1}}

SourceLists == { <<>>, << "a.pdf" >>, << "b.pdf", "a.pdf" >>, << "a.pdf", "a.pdf" >> }

\* list(set(...)): the elements of the set, once each, in an order that the
\* hashing of the strings gives and the code does not choose
Orderings(S) ==
    {p \in [1..Cardinality(S) -> S] : \A i, j \in 1..Cardinality(S) :
                                          i # j => p[i] # p[j]}

\* _extract_entities(text): list(set(entities))[:5]
extract_entities(text) ==
    {SubSeq(p, 1, Min(Len(p), MaxExtracted)) : p \in Orderings(Range(text))}

\* list(set(context['key_entities']))[-10:] after the extend
KeyEntitiesAfter(key_entities, entities) ==
    {SubSeq(p, Max(Len(p) - MaxKeyEntities, 0) + 1, Len(p)) :
        p \in Orderings(Range(key_entities \o entities))}

\* the loop over sources: a source is appended unless it is there
RECURSIVE ReferencedAfter(_, _)
ReferencedAfter(referenced_documents, sources) ==
    IF sources = <<>> THEN referenced_documents
    ELSE ReferencedAfter(
             IF Head(sources) \in Range(referenced_documents)
             THEN referenced_documents
             ELSE Append(referenced_documents, Head(sources)),
             Tail(sources))

\* update_context, for the entities extracted and the key entities kept
update_context(context, question, response, sources, entities, keys, now) ==
    LET flow == Append(context.conversation_flow,
                       [question  |-> question,
                        response  |-> IF Len(response) > ResponseCap
                                      THEN SubSeq(response, 1, ResponseCap)
                                           \o << ".", ".", "." >>
                                      ELSE response,
                        timestamp |-> now,
                        entities  |-> entities])
    IN  [current_topic        |-> IF entities # <<>> THEN entities[1]
                                  ELSE context.current_topic,
         referenced_documents |-> ReferencedAfter(context.referenced_documents,
                                                  sources),
         key_entities         |-> keys,
         conversation_flow    |-> SubSeq(flow, Max(Len(flow) - MaxFlow, 0) + 1,
                                         Len(flow))]

\* update_context(user_question, ai_response, sources), up to MaxFlow + 1
\* times; lastOp keeps the entities of every call so far
UpdateContext ==
    /\ clock <= MaxFlow
    /\ \E user_question \in ContextQuestions, ai_response \in Responses,
          sources \in SourceLists :
        \E entities \in extract_entities(user_question) :
            \E key_entities \in KeyEntitiesAfter(conversation_context.key_entities,
                                                 entities) :
                /\ conversation_context' =
                       update_context(conversation_context, user_question,
                                      ai_response, sources, entities,
                                      key_entities, clock + 1)
                /\ lastOp' = [name |-> "update_context",
                              user_question |-> user_question,
                              sources |-> sources,
                              seen |-> (IF lastOp.name = "update_context"
                                        THEN lastOp.seen ELSE <<>>)
                                       \o << Range(entities) >>,
                              faults |-> {}, calls |-> <<>>]
    /\ clock' = clock + 1
    /\ lastRet' = "None"
    /\ lastMsg' = "none"
    /\ lastIds' = <<>>
    /\ lastResult' = <<>>
    /\ lastStats' = NoStats
    /\ lastHybrid' = NoHybrid
    /\ before' = collection
    /\ prev' = Follows("update_context", <<>>)
    /\ UNCHANGED <<collection, sessions, conversation_history, session_state>>

NextContext == UpdateContext

SpecContext == Init /\ [][NextContext]_vars

(***************************************************************************)
(* The runs of the script (src/main.py): main initialises the system when  *)
(* system_initialized is not set and stops the run when that fails; the    *)
(* sections that ingest, search and clear come after it.  The operations   *)
(* are taken without failures of their calls, the uploads with one file.   *)
(***************************************************************************)
\* number of runs of initialize_system
MaxAttempts == 2

\* the constructors of initialize_system, in the order of their calls: the
\* four of the claim and, as one, those after them
Constructors == 1..5

InitRuns ==
    /\ NoActivity
    /\ session_state = SessionDefaults
    /\ collection = <<>>
    /\ clock = 0
    /\ lastOp = [name |-> "init", faults |-> {}, calls |-> <<>>]
    /\ lastRet = "none"
    /\ lastMsg = "none"
    /\ lastIds = <<>>
    /\ lastResult = <<>>
    /\ lastStats = NoStats
    /\ lastHybrid = NoHybrid
    /\ before = <<>>
    /\ prev = [after_clear |-> FALSE, cleared |-> 0, same_add |-> FALSE,
               ids |-> <<>>]

\* a run in which main calls initialize_system: no constructor fails
\* (failed is past the last of them) or the one of number failed raises; the
\* run goes on to the sections in the first case and stops in the second
InitializeSystem ==
    /\ ~session_state.system_initialized
    /\ session_state.attempts < MaxAttempts
    /\ \E failed \in Constructors \cup {Cardinality(Constructors) + 1},
          client \in BOOLEAN :
        /\ ~client => failed > 2
        /\ session_state' = InitializedBy(session_state,
                                          session_state.attempts + 1, failed, client)
        /\ lastOp' = [name |-> "initialize_system", failed |-> failed,
                      faults |-> {failed} \cap Constructors,
                      calls |-> [i \in 1..Min(failed, Cardinality(Constructors))
                                    |-> i]]
        /\ lastRet' = IF failed \in Constructors THEN "False" ELSE "True"
        /\ lastMsg' = IF failed \in Constructors THEN "error" ELSE "none"
    /\ lastIds' = <<>>
    /\ lastResult' = <<>>
    /\ lastStats' = NoStats
    /\ lastHybrid' = NoHybrid
    /\ before' = collection
    /\ prev' = Follows("initialize_system", <<>>)
    /\ UNCHANGED <<collection, clock, sessions, conversation_history,
                   conversation_context>>

\* render_upload_section: the upload of one file is ingested
Ingest ==
    /\ session_state.system_initialized
    /\ \E documents \in {b \in Batches : Len(b) = 1} :
           add_documents_to_vectorstore(documents, {})
    /\ UNCHANGED appVars

\* render_reports_section: a hybrid search for one result
Search ==
    /\ session_state.system_initialized
    /\ \E query \in Queries :
           \E r \in QueryRankings(collection, encode[query], 1) :
               hybrid_search(query, 1, {}, r)
    /\ UNCHANGED appVars

\* render_sidebar: the button that clears the collection
Delete ==
    /\ session_state.system_initialized
    /\ clear_collection({})
    /\ UNCHANGED appVars

NextRuns ==
    \/ InitializeSystem
    \/ Ingest
    \/ Search
    \/ Delete

SpecRuns == InitRuns /\ [][NextRuns]_vars

(***************************************************************************)
(* Properties.                                                             *)
(***************************************************************************)
LastIs(name) == lastOp.name = name

\* C1: an ingestion that directly follows a completed ingestion of the same
\* documents produces the same set of chunk ids and stores nothing: the
\* collection after it is the collection after the first
C1_IdempotentIngestion ==
    (LastIs("add") /\ prev.same_add) =>
        /\ Range(lastIds) = Range(prev.ids)
        /\ collection = before

C1_Witness ==
    /\ LastIs("add") /\ prev.same_add
    /\ lastRet = "True" /\ lastIds # <<>>
    /\ Range(lastIds) \subseteq IdsOf(collection)

\* C2: no operation but delete_document_by_source and clear_collection
\* removes or changes a stored entry: after an ingestion every entry that was
\* stored is still there, at its place, with its content, its metadata (its
\* timestamp and source among them) and its embedding
C2_UpsertNeverOverwrites ==
    ~(LastIs("delete") \/ LastIs("clear")) =>
        /\ Len(before) <= Len(collection)
        /\ SubSeq(collection, 1, Len(before)) = before

\* an ingestion that stored new chunks and met a stored chunk of one of its
\* documents, stored under another filename
C2_Witness ==
    /\ LastIs("add") /\ lastRet = "True" /\ collection # before
    /\ \E i \in 1..Len(before), k \in 1..Len(lastOp.documents) :
          /\ before[i].id \in Range(lastIds)
          /\ before[i].metadata.hash = lastOp.documents[k].file_hash
          /\ before[i].metadata.source # lastOp.documents[k].filename

\* the documents of the two paths in the dict hybrid_search returned
SemanticDocs ==
    IF lastHybrid.semantic.documents = <<>> THEN <<>>
    ELSE lastHybrid.semantic.documents[1]

KeywordDocs == [i \in 1..Len(lastHybrid.keyword) |-> lastHybrid.keyword[i].content]

HybridReturned == LastIs("hybrid") /\ lastRet = "dict"

\* C3: hybrid_search always returns; when the semantic path failed its
\* results are empty and the keyword results are there, and when the keyword
\* path failed the keyword results are empty and the semantic ones are there
C3_PartialResults ==
    LastIs("hybrid") =>
        /\ lastRet = "dict"
        /\ lastOp.faults \cap {"encode", "query"} # {} => SemanticDocs = <<>>
        /\ "scan" \in lastOp.faults => lastHybrid.keyword = <<>>

NoRepeats(s) == Cardinality(Range(s)) = Len(s)

ContentsDisjoint == Range(SemanticDocs) \cap Range(KeywordDocs) = {}

\* C4, as claimed: total_unique <= semantic_count + keyword_count, with
\* equality exactly when the contents of the two paths are disjoint
C4_UnionCountIffDisjoint ==
    HybridReturned =>
        LET sum == lastHybrid.hybrid_summary.semantic_count
                   + lastHybrid.hybrid_summary.keyword_count
            n   == lastHybrid.hybrid_summary.total_unique
        IN  n <= sum /\ (n = sum <=> ContentsDisjoint)

\* C4, amended: total_unique <= semantic_count + keyword_count, with
\* equality exactly when the contents of the two paths are disjoint and
\* neither path has two results of the same content
C4_UnionCount ==
    HybridReturned =>
        LET sum == lastHybrid.hybrid_summary.semantic_count
                   + lastHybrid.hybrid_summary.keyword_count
            n   == lastHybrid.hybrid_summary.total_unique
        IN  /\ n <= sum
            /\ n = sum <=> /\ ContentsDisjoint
                           /\ NoRepeats(SemanticDocs)
                           /\ NoRepeats(KeywordDocs)

\* both paths returned results, of disjoint contents, and one of them
\* returned the same content twice
C4_Witness ==
    /\ HybridReturned
    /\ SemanticDocs # <<>> /\ KeywordDocs # <<>>
    /\ ContentsDisjoint
    /\ lastHybrid.hybrid_summary.total_unique
           < lastHybrid.hybrid_summary.semantic_count
             + lastHybrid.hybrid_summary.keyword_count

\* C5: total_unique is the number of distinct content strings among the
\* results of the two paths; a passage both paths returned counts once,
\* whatever the chunks it was returned from
C5_TotalUnique ==
    HybridReturned =>
        lastHybrid.hybrid_summary.total_unique
            = Cardinality(Range(SemanticDocs) \cup Range(KeywordDocs))

\* the two paths returned the same passage from chunks of different documents
C5_Witness ==
    /\ HybridReturned
    /\ \E i \in 1..Len(SemanticDocs), j \in 1..Len(KeywordDocs) :
          /\ SemanticDocs[i] = KeywordDocs[j]
          /\ lastHybrid.semantic.metadatas[1][i].hash
                 # lastHybrid.keyword[j].metadata.hash

OfOtherSources(coll, source) ==
    SelectSeq(coll, LAMBDA e : e.metadata.source # source)

\* C6: delete_document_by_source(s) leaves every entry of another source as
\* it was, and when it ran to its end no entry of source s is left
C6_DeleteBySource ==
    LastIs("delete") =>
        /\ OfOtherSources(collection, lastOp.source)
               = OfOtherSources(before, lastOp.source)
        /\ Completed => collection = OfOtherSources(before, lastOp.source)

\* a delete that removed the entries of one source and left those of another
C6_Witness ==
    /\ LastIs("delete") /\ lastRet = "True"
    /\ collection # <<>>
    /\ Len(collection) < Len(before)

\* a delete_document_by_source of a source without entries, on an index
\* that has entries, in which no collaborator failed
MissingSourceDeleted ==
    /\ LastIs("delete") /\ lastOp.faults = {}
    /\ before # <<>>
    /\ \A i \in 1..Len(before) : before[i].metadata.source # lastOp.source

\* C7: deleting by a source without entries leaves the index as it was and
\* returns something else than what the operation returns when it fails
C7_MissingSourceIsNoError ==
    MissingSourceDeleted =>
        /\ collection = before
        /\ \A faults \in DeleteFaults \ {{}} :
               lastRet # DeleteOutcome(before, lastOp.source, faults).ret

\* C8: get_collection_stats right after a clear_collection that returned
\* True reports no chunk and no document
C8_ClearThenStats ==
    (LastIs("stats") /\ prev.after_clear /\ lastOp.faults = {}) =>
        /\ lastStats.total_chunks = 0
        /\ lastStats.unique_documents = 0

\* stats right after a clear that removed entries
C8_Witness ==
    /\ LastIs("stats") /\ prev.after_clear /\ lastOp.faults = {}
    /\ prev.cleared > 0

SourcesOf(coll) == {coll[i].metadata.source : i \in 1..Len(coll)}

\* C9: get_collection_stats returns total_chunks, unique_documents and
\* sources in every state: the number of entries, the number of their
\* distinct sources, and the set of these
C9_StatsFields ==
    (LastIs("stats") /\ lastOp.faults = {}) =>
        /\ {"total_chunks", "unique_documents", "sources"} \subseteq DOMAIN lastStats
        /\ lastStats.total_chunks = Len(collection)
        /\ lastStats.sources = SourcesOf(collection)
        /\ lastStats.unique_documents = Cardinality(SourcesOf(collection))
        /\ lastStats.unique_documents <= lastStats.total_chunks

\* C10: an ingestion in which the embedding generation failed returns False
\* and leaves the collection as it was
C10_NoPartialWrites ==
    (LastIs("add") /\ "encode" \in lastOp.faults) =>
        /\ lastRet = "False"
        /\ collection = before

\* the embedding failed in an ingestion that had stored and new chunks
C10_Witness ==
    /\ LastIs("add") /\ "encode" \in lastOp.faults
    /\ Range(lastIds) \cap IdsOf(before) # {}
    /\ Range(lastIds) \ IdsOf(before) # {}

NoTextFiles ==
    {i \in 1..Len(lastOp.uploaded_files) :
        /\ extract_text_pdfplumber(lastOp.uploaded_files[i].content) = <<>>
        /\ extract_text_pypdf2(lastOp.uploaded_files[i].content) = <<>>}

\* C12: of a valid upload, a file from which no text was extracted is
\* reported as failed and no document is made of it, and a document is made
\* of every other file
C12_ExtractionIsolated ==
    (LastIs("load") /\ validate_files(lastOp.uploaded_files)) =>
        \A i \in 1..Len(lastOp.uploaded_files) :
            LET file == lastOp.uploaded_files[i]
                made == \E k \in 1..Len(lastResult) :
                            lastResult[k].filename = file.name
            IN  IF i \in NoTextFiles
                THEN lastOp.reports[i] = "error" /\ ~made
                ELSE lastOp.reports[i] = "success" /\ made

\* the keywords of the query of the last keyword_search, and the positions
\* (0-based, as in the metadata) of the corpus documents that share one
QueryKeywords == extract_keywords(lastOp.query)

SharingDocuments ==
    {i - 1 : i \in {k \in 1..Len(lastOp.documents) :
                       QueryKeywords
                           \cap extract_keywords(lastOp.documents[k].documents[1]) # {}}}

\* C13: the score of every result of keyword_search is the number of the
\* query's keywords the document has over max(number of the query's
\* keywords, 1); it is greater than 0 and at most 1, and matched_keywords is
\* a non-empty subset of the query's keywords
C13_KeywordScore ==
    LastIs("keyword_search") =>
        \A k \in 1..Len(lastResult) :
            LET m     == lastResult[k]
                score == m.keyword_score
            IN  /\ m.matched_keywords # {}
                /\ m.matched_keywords \subseteq QueryKeywords
                /\ m.matched_keywords = QueryKeywords \cap extract_keywords(m.content)
                /\ score.num = Cardinality(m.matched_keywords)
                /\ score.den = IF QueryKeywords = {} THEN 1
                               ELSE Cardinality(QueryKeywords)
                /\ 0 < score.num /\ score.num <= score.den

\* a search with a result of score 1 and a result of a score under 1, over a
\* corpus with a document that matches nothing
C13_Witness ==
    /\ LastIs("keyword_search")
    /\ Len(lastResult) < Len(lastOp.documents)
    /\ \E i, j \in 1..Len(lastResult) :
          /\ lastResult[i].keyword_score.num = lastResult[i].keyword_score.den
          /\ lastResult[j].keyword_score.num < lastResult[j].keyword_score.den

\* the query has one keyword, and one document of the corpus has it, in the
\* sense of has: as one of its extracted keywords, or somewhere in its content
SingleKeyword == Cardinality(QueryKeywords) = 1

OneDocumentSharesIt == Cardinality(SharingDocuments) = 1

OneDocumentContainsIt ==
    Cardinality({k \in 1..Len(lastOp.documents) :
                    \E w \in QueryKeywords :
                        FindSep(lastOp.documents[k].documents[1], w, 1) # 0}) = 1

OneMatchOfScoreOne ==
    /\ Len(lastResult) = 1
    /\ lastResult[1].keyword_score = [num |-> 1, den |-> 1]

\* C14, as claimed, with "contains" read as in the specification (the literal
\* substring): a query of one keyword that one document contains gets exactly
\* one match, of score 1.0
C14_SubstringMatch ==
    (LastIs("keyword_search") /\ SingleKeyword /\ OneDocumentContainsIt) =>
        OneMatchOfScoreOne

\* C14, amended: keyword_search returns one result for each document that
\* shares an extracted keyword with the query and none for the others; when
\* the query has one keyword and exactly one document has it among its
\* extracted keywords, there is exactly one match, of score 1.0
C14_KeywordSearchResults ==
    LastIs("keyword_search") =>
        /\ Len(lastResult) = Cardinality(SharingDocuments)
        /\ {lastResult[k].metadata.chunk_index : k \in 1..Len(lastResult)}
               = SharingDocuments
        /\ \A k \in 1..Len(lastResult) :
               lastResult[k].content
                   = lastOp.documents[lastResult[k].metadata.chunk_index + 1].documents[1]
        /\ (SingleKeyword /\ OneDocumentSharesIt) => OneMatchOfScoreOne

\* a query of one keyword over a corpus of several documents, one of which
\* has the keyword while another has it inside a longer word only
C14_Witness ==
    /\ LastIs("keyword_search") /\ SingleKeyword /\ OneDocumentSharesIt
    /\ ~OneDocumentContainsIt
    /\ Len(lastOp.documents) > 1
    /\ OneMatchOfScoreOne

\* C15: the results of keyword_search are in descending order of score, and
\* results of the same score are in the order of their documents in the corpus
C15_KeywordOrder ==
    LastIs("keyword_search") =>
        \A i, j \in 1..Len(lastResult) :
            i < j =>
                /\ lastResult[i].keyword_score.num >= lastResult[j].keyword_score.num
                /\ lastResult[i].keyword_score.num = lastResult[j].keyword_score.num
                       => lastResult[i].metadata.chunk_index
                              < lastResult[j].metadata.chunk_index

\* a search in which the sort moved a later document before an earlier one
\* and kept two documents of the same score in their order
C15_Witness ==
    /\ LastIs("keyword_search")
    /\ \E i, j \in 1..Len(lastResult) :
          /\ i < j
          /\ lastResult[i].keyword_score.num > lastResult[j].keyword_score.num
          /\ lastResult[i].metadata.chunk_index > lastResult[j].metadata.chunk_index
    /\ \E i, j \in 1..Len(lastResult) :
          /\ i < j
          /\ lastResult[i].keyword_score.num = lastResult[j].keyword_score.num

SameChunk(c, hash, chunk_index) ==
    c.metadata.hash = hash /\ c.metadata.chunk_index = chunk_index

\* C16: the id of a chunk is ChunkId of the hash of its document and of its
\* index, whatever the filename, the time and the collection; two chunks of
\* one ingestion, or a chunk of it and an entry stored before it, have the
\* same id exactly when they have the same hash and the same index
C16_ChunkIds ==
    LastIs("add") =>
        \A k \in 1..Len(lastResult) :
            LET c == lastResult[k] IN
            /\ c.id = ChunkId(c.metadata.hash, c.chunk_index)
            /\ \A l \in 1..Len(lastResult) :
                   c.id = lastResult[l].id
                       <=> SameChunk(lastResult[l], c.metadata.hash, c.chunk_index)
            /\ \A i \in 1..Len(before) :
                   c.id = before[i].id
                       <=> SameChunk(before[i], c.metadata.hash, c.chunk_index)

\* an ingestion that produced two chunks of one document, and a chunk with
\* the id of an entry stored at another time under another filename
C16_Witness ==
    /\ LastIs("add")
    /\ \E k, l \in 1..Len(lastResult) :
          /\ lastResult[k].metadata.hash = lastResult[l].metadata.hash
          /\ lastResult[k].chunk_index # lastResult[l].chunk_index
    /\ \E k \in 1..Len(lastResult), i \in 1..Len(before) :
          /\ lastResult[k].id = before[i].id
          /\ lastResult[k].metadata.source # before[i].metadata.source
          /\ lastResult[k].metadata.timestamp # before[i].metadata.timestamp

\* the text split_documents was called on directly, and the contents of the
\* chunks it returned
SplitInput == lastOp.documents[1].content

ChunkContents == [k \in 1..Len(lastResult) |-> lastResult[k].content]

NonWhite(text) == {i \in 1..Len(text) : text[i] \notin {" ", "\n"}}

\* C17: every chunk split_documents returns has a character that is not
\* whitespace
C17_NoEmptyChunks ==
    LastIs("split") =>
        \A k \in 1..Len(ChunkContents) : NonWhite(ChunkContents[k]) # {}

\* a text that begins and ends with whitespace and has a line of whitespace
\* between two words was split into chunks
C17_Witness ==
    /\ LastIs("split")
    /\ Len(SplitInput) > 4
    /\ 1 \notin NonWhite(SplitInput)
    /\ Len(SplitInput) \notin NonWhite(SplitInput)
    /\ \E i \in 2..(Len(SplitInput) - 3) :
          SubSeq(SplitInput, i, i + 2) = << "\n", " ", "\n" >>
    /\ Len(lastResult) > 1

\* C18: a chunk carries, in itself and in its metadata, the 0-based position
\* of its piece among the pieces of the splitter and the number of these
\* pieces; the indices are within 0..total_chunks - 1 and increase along the
\* chunks, which are no more than total_chunks
C18_ChunkNumbering ==
    LastIs("split") =>
        LET pieces == SplitText(SplitInput) IN
        /\ Len(lastResult) <= Len(pieces)
        /\ \A k \in 1..Len(lastResult) :
               LET c == lastResult[k] IN
               /\ c.chunk_index = c.metadata.chunk_index
               /\ c.total_chunks = c.metadata.total_chunks
               /\ c.total_chunks = Len(pieces)
               /\ 0 <= c.chunk_index /\ c.chunk_index < c.total_chunks
               /\ c.content = pieces[c.chunk_index + 1]
               /\ k > 1 => lastResult[k - 1].chunk_index < c.chunk_index

\* a text split into three or more chunks
C18_Witness ==
    /\ LastIs("split")
    /\ Len(lastResult) >= 3
    /\ lastResult[Len(lastResult)].chunk_index = lastResult[1].total_chunks - 1

\* C19: no chunk is longer than ChunkSize, and a text with more than twice
\* ChunkSize characters that are not whitespace gives three chunks or more
C19_ChunkSizeCap ==
    LastIs("split") =>
        /\ \A k \in 1..Len(ChunkContents) : Len(ChunkContents[k]) <= ChunkSize
        /\ Cardinality(NonWhite(SplitInput)) > 2 * ChunkSize
               => Len(ChunkContents) >= 3

\* a word without separators of more than twice ChunkSize characters was cut
\* into chunks of ChunkSize characters
C19_Witness ==
    /\ LastIs("split")
    /\ Cardinality(NonWhite(SplitInput)) = Len(SplitInput)
    /\ Len(SplitInput) > 2 * ChunkSize
    /\ Len(ChunkContents) >= 3
    /\ Len(ChunkContents[1]) = ChunkSize
    /\ Len(ChunkContents[2]) = ChunkSize

\* C20: the last ChunkOverlap characters of a chunk are the first
\* ChunkOverlap characters of the chunk after it
C20_ChunkOverlap ==
    LastIs("split") =>
        \A k \in 1..(Len(ChunkContents) - 1) :
            LET a == ChunkContents[k]
                b == ChunkContents[k + 1]
            IN  /\ Len(a) >= ChunkOverlap
                /\ Len(b) >= ChunkOverlap
                /\ SubSeq(a, Len(a) - ChunkOverlap + 1, Len(a)) = SubSeq(b, 1, ChunkOverlap)

\* C21: the list generate_embeddings returns has one vector for every text
\* of the batch it was called with: it is empty for the empty batch, and for
\* no batch is it shorter than the batch
C21_EmbeddingShape ==
    LastIs("generate_embeddings") => Len(lastResult) = Len(lastOp.texts)

\* the ids, the contents and the distances search_similar_chunks returned
ResultIds == lastResult.ids[1]

ResultContents == lastResult.documents[1]

ResultDistances == lastResult.distances[1]

QueryDistance(entry) == Distance(encode[lastOp.query], entry.embedding)

\* C22: a search for n_results >= 1 nearest chunks in which no call fails
\* returns min(n_results, number of entries) results: different entries of the
\* collection, each with its distance to the vector of the query, in
\* ascending order of distance, and no entry left out is nearer than one
\* returned; with fewer than n_results entries all of them are returned
C22_QuerySizeAndOrder ==
    LastIs("search") /\ lastOp.faults = {} =>
        /\ lastRet = "dict"
        /\ lastOp.n_results >= 1
        /\ Len(ResultDistances) = Min(lastOp.n_results, Len(collection))
        /\ Len(ResultIds) = Len(ResultDistances)
        /\ Len(ResultContents) = Len(ResultDistances)
        /\ \A i, j \in 1..Len(ResultIds) : i < j => ResultIds[i] # ResultIds[j]
        /\ \A i \in 1..Len(ResultIds) :
               \E k \in 1..Len(collection) :
                   /\ collection[k].id = ResultIds[i]
                   /\ collection[k].document = ResultContents[i]
                   /\ ResultDistances[i] = QueryDistance(collection[k])
        /\ \A i, j \in 1..Len(ResultDistances) :
               i < j => ResultDistances[i] <= ResultDistances[j]
        /\ \A k \in 1..Len(collection) :
               collection[k].id \notin Range(ResultIds) =>
                   \A i \in 1..Len(ResultDistances) :
                       ResultDistances[i] <= QueryDistance(collection[k])
        /\ Len(collection) < lastOp.n_results => Range(ResultIds) = IdsOf(collection)

\* a search for more results than the collection has entries: the one entry
\* of the collection was returned
C22_Witness ==
    /\ LastIs("search") /\ lastOp.faults = {}
    /\ Len(collection) = 1
    /\ lastOp.n_results > Len(collection)
    /\ Len(ResultIds) = 1

\* document d is a changed version of a stored document: entries of another
\* hash are stored under its filename
ChangedVersion(d, coll) ==
    \E i \in 1..Len(coll) : /\ coll[i].metadata.source = d.filename
                             /\ coll[i].metadata.hash # d.file_hash

\* the chunks the last ingestion made of document d
ChunksOf(d) ==
    SelectSeq(lastResult, LAMBDA c : c.source = d.filename
                                     /\ c.metadata.hash = d.file_hash)

\* the entries stored before the ingestion are all there, as they were
OldEntriesKept ==
    /\ Len(collection) >= Len(before)
    /\ \A i \in 1..Len(before) : collection[i] = before[i]

\* every chunk of d is stored under the filename of d
StoredUnderItsName(d) ==
    \A k \in 1..Len(ChunksOf(d)) :
        \E i \in 1..Len(collection) :
            /\ collection[i].id = ChunksOf(d)[k].id
            /\ collection[i].metadata.source = d.filename

\* the hashes of the entries stored under filename f
HashesUnder(f, coll) ==
    {coll[i].metadata.hash :
        i \in {k \in 1..Len(coll) : coll[k].metadata.source = f}}

\* the statistics count a filename with entries of two hashes once
CountedOnce ==
    LastIs("stats") /\ lastOp.faults = {} =>
        \A f \in Filenames :
            Cardinality(HashesUnder(f, collection)) > 1 =>
                /\ f \in lastStats.sources
                /\ lastStats.unique_documents
                       = Cardinality({g \in Filenames : HashesUnder(g, collection) # {}})

\* C23 as stated: after a successful ingestion of a changed version of a
\* stored document the old entries are as they were and the chunks of the new
\* version are stored under the same filename, and the statistics count the
\* filename once
C23_BothVersionsUnderSource ==
    /\ LastIs("add") /\ lastRet = "True" =>
           \A k \in 1..Len(lastOp.documents) :
               ChangedVersion(lastOp.documents[k], before) =>
                   OldEntriesKept /\ StoredUnderItsName(lastOp.documents[k])
    /\ CountedOnce

\* C23, for a new version whose content was not stored before: after a
\* successful ingestion of a changed version of a stored document, no chunk
\* id of which was in the index, the old entries are as they were and the
\* chunks of the new version are stored under the same filename, and the
\* statistics count the filename once
C23_ChangedDocument ==
    /\ LastIs("add") /\ lastRet = "True" =>
           \A k \in 1..Len(lastOp.documents) :
               LET d == lastOp.documents[k] IN
               /\ ChangedVersion(d, before)
               /\ IdsOf(ChunksOf(d)) \cap IdsOf(before) = {}
               => OldEntriesKept /\ StoredUnderItsName(d)
    /\ CountedOnce

\* a changed version of a stored document was ingested and the entries of
\* the two versions are stored under its filename
C23_Witness ==
    /\ LastIs("add") /\ lastRet = "True"
    /\ \E k \in 1..Len(lastOp.documents) :
          LET d == lastOp.documents[k] IN
          /\ ChangedVersion(d, before)
          /\ IdsOf(ChunksOf(d)) \cap IdsOf(before) = {}
          /\ ChunksOf(d) # <<>>
          /\ Cardinality(HashesUnder(d.filename, collection)) = 2

\* C24: of two sessions at most one is between the read and the write of a
\* mutation, so the ids an ingestion has read are the ids of the collection
\* it writes to, and a clear_collection that has returned True leaves the
\* collection empty
C24_MutationsSerialized ==
    /\ \A s, t \in Sessions :
           s # t => sessions[s].pc = "idle" \/ sessions[t].pc = "idle"
    /\ \A s \in Sessions :
           sessions[s].pc = "add" => sessions[s].ids = IdsOf(collection)
    /\ LastIs("session_clear") /\ lastRet = "True" => collection = <<>>

\* C25: when the vectors of the index have not the dimension of the vector
\* of the query, search_similar_chunks ends with an error that leaves it,
\* and collection.query is not called
C25_DimensionChecked ==
    /\ LastIs("search")
    /\ "encode" \notin lastOp.faults
    /\ DimensionMismatch(collection)
    => /\ "query" \notin Range(lastOp.calls)
       /\ lastRet = "raised"

\* the ids of the chunks of document d that are not whitespace only
ValidChunkIds(d) ==
    LET pieces == TextChunks(d.content) IN
    {ChunkId(d.file_hash, i - 1) :
        i \in {k \in 1..Len(pieces) : NonWhite(pieces[k]) # {}}}

\* C26: an ingestion returns True or False; when it returns True the id of
\* every chunk, not whitespace only, of every document of the batch is in the
\* collection, and when it returns False the collection is what it was
\* before the call
C26_IngestionPostcondition ==
    LastIs("add") =>
        /\ lastRet \in {"True", "False"}
        /\ lastRet = "True" =>
               \A k \in 1..Len(lastOp.documents) :
                   ValidChunkIds(lastOp.documents[k]) \subseteq IdsOf(collection)
        /\ lastRet = "False" => collection = before

\* a batch of two documents of one content hash, not stored before, handed
\* to a collection that is not empty: no call was made to fail, and the
\* ingestion returned False
C26_Witness ==
    /\ LastIs("add") /\ lastOp.faults = {}
    /\ Len(lastOp.documents) = 2
    /\ lastOp.documents[1].file_hash = lastOp.documents[2].file_hash
    /\ before # <<>>
    /\ lastRet = "False"
    /\ collection = before

\* document d has the content of a document indexed under other filenames
\* only: all its chunk ids are stored, none of them under its filename
IndexedUnderOtherName(d, coll) ==
    /\ ValidChunkIds(d) # {}
    /\ ValidChunkIds(d) \subseteq IdsOf(coll)
    /\ \A i \in 1..Len(coll) :
           coll[i].id \in ValidChunkIds(d) => coll[i].metadata.source # d.filename

\* no entry of coll is a chunk of d stored under the filename of d
NothingStoredFor(d, coll) ==
    \A i \in 1..Len(coll) :
        ~(coll[i].id \in ValidChunkIds(d) /\ coll[i].metadata.source = d.filename)

\* C27: when no call fails, ingesting a document whose content is indexed
\* under other filenames stores no entry for it; ingested alone, all its
\* chunks are skipped after collection.get, the call returns True and the
\* collection is what it was; and a filename that had no entries has none
\* after it: the statistics do not list it and delete_document_by_source
\* finds nothing to remove under it
C27_SameContentNewFilename ==
    LastIs("add") /\ lastOp.faults = {} =>
        \A k \in 1..Len(lastOp.documents) :
            LET d == lastOp.documents[k] IN
            IndexedUnderOtherName(d, before) =>
                /\ NothingStoredFor(d, collection)
                /\ lastRet = "True"
                /\ Len(lastOp.documents) = 1 =>
                       /\ lastOp.calls = << "get" >>
                       /\ lastMsg = "info"
                       /\ collection = before
                /\ d.filename \notin SourcesOf(before) =>
                       /\ d.filename \notin StatsOf(collection).sources
                       /\ DeleteOutcome(collection, d.filename, {}).ret = "False"
                       /\ DeleteOutcome(collection, d.filename, {}).coll = collection

\* a document with the content of a stored document was ingested alone
\* under a filename the index does not have
C27_Witness ==
    /\ LastIs("add") /\ lastOp.faults = {}
    /\ Len(lastOp.documents) = 1
    /\ IndexedUnderOtherName(lastOp.documents[1], before)
    /\ lastOp.documents[1].filename \notin SourcesOf(before)
    /\ lastRet = "True"
    /\ collection = before

\* the texts generate_response returns for a failure
ErrorTexts == {generate_response(FALSE, "raised"), generate_response(TRUE, "raised")}

\* C28: the conversation history has an even number of entries, of roles
\* user, assistant, user, assistant, ...; a chat_with_context leaves the
\* history it found with two more entries, the question as user and the text
\* it returns as assistant, which is the text of the error when the call of
\* the model failed; clear_history leaves it empty; neither changes the
\* collection
C28_ConversationHistoryShape ==
    LET h == conversation_history
        n == Len(conversation_history)
    IN  /\ n % 2 = 0
        /\ \A i \in 1..n : h[i].role = IF i % 2 = 1 THEN "user" ELSE "assistant"
        /\ LastIs("chat_with_context") =>
               /\ n = Len(lastOp.conversation_history) + 2
               /\ SubSeq(h, 1, n - 2) = lastOp.conversation_history
               /\ h[n - 1].role = "user"
               /\ h[n - 1].content = lastOp.user_question
               /\ h[n].role = "assistant"
               /\ h[n].content = lastResult
               /\ lastOp.calls = <<>> \/ lastOp.faults # {} => h[n].content \in ErrorTexts
               /\ collection = before
        /\ LastIs("clear_history") => h = <<>> /\ collection = before

\* the call of the model failed in the second question of a conversation
\* over a collection that is not empty
C28_Witness ==
    /\ LastIs("chat_with_context")
    /\ lastOp.faults # {}
    /\ Len(conversation_history) = 4
    /\ conversation_history[4].content \in ErrorTexts
    /\ collection # <<>>

\* the entities seen in the calls of update_context so far, call by call
Seen == IF LastIs("update_context") THEN lastOp.seen ELSE <<>>

SeenEntities == UNION Range(Seen)

\* the last call in which entity e was seen
LastSeen(e) == CHOOSE i \in 1..Len(Seen) :
                   e \in Seen[i] /\ \A j \in (i + 1)..Len(Seen) : e \notin Seen[j]

\* conversation_flow has the last interactions, MaxFlow of them at most, in
\* the order of the calls
FlowIsMostRecent ==
    LET flow == conversation_context.conversation_flow IN
    /\ Len(flow) = Min(clock, MaxFlow)
    /\ \A i \in 1..Len(flow) : flow[i].timestamp = clock - Len(flow) + i

\* key_entities has entities seen, MaxKeyEntities of them at most and each
\* once, and none left out was seen later than one of them
KeyEntitiesAreMostRecent ==
    LET keys == conversation_context.key_entities IN
    /\ Len(keys) = Min(Cardinality(SeenEntities), MaxKeyEntities)
    /\ Cardinality(Range(keys)) = Len(keys)
    /\ Range(keys) \subseteq SeenEntities
    /\ \A e \in Range(keys) : \A f \in SeenEntities \ Range(keys) :
           LastSeen(f) <= LastSeen(e)

NoDuplicateSource ==
    LET refs == conversation_context.referenced_documents IN
    \A i, j \in 1..Len(refs) : i # j => refs[i] # refs[j]

ResponsesAreCut ==
    LET flow == conversation_context.conversation_flow IN
    \A i \in 1..Len(flow) : Len(flow[i].response) <= ResponseCap + 3

\* what holds of the context whatever order the sets are listed in
ContextBoundsKept ==
    /\ FlowIsMostRecent
    /\ Len(conversation_context.key_entities) <= MaxKeyEntities
    /\ Range(conversation_context.key_entities) \subseteq SeenEntities
    /\ NoDuplicateSource
    /\ ResponsesAreCut

\* C29: after any calls of update_context, conversation_flow has the most
\* recent interactions in call order and no more of them than its cap,
\* key_entities has the most recently seen distinct entities and no more of
\* them than its cap, referenced_documents has no source twice, and every
\* stored response has at most ResponseCap + 3 characters
C29_ContextBounds ==
    /\ FlowIsMostRecent
    /\ KeyEntitiesAreMostRecent
    /\ NoDuplicateSource
    /\ ResponsesAreCut

\* the four objects are there, made by the same run of initialize_system,
\* the last one, and the hybrid search wraps the embedder of the session
SystemComplete ==
    /\ session_state.embedder # None
    /\ session_state.chat_manager # None
    /\ session_state.chat_interface # None
    /\ session_state.hybrid_search # None
    /\ session_state.embedder.class = "DocumentEmbedder"
    /\ session_state.hybrid_search.class = "HybridSearch"
    /\ session_state.hybrid_search.wraps = session_state.embedder.id
    /\ session_state.chat_interface.wraps = session_state.chat_manager.id
    /\ \A o \in {session_state.embedder, session_state.chat_manager,
                  session_state.chat_interface, session_state.hybrid_search} :
           o.id = session_state.attempts

\* C30: when system_initialized is set the embedder, the chat manager, the
\* chat interface and the hybrid search are there and the hybrid search
\* wraps that embedder; an initialize_system in which a constructor failed
\* returns False and leaves system_initialized unset, one in which none
\* failed returns True with every object made anew in it; and an ingestion,
\* a search or a clearing has run only with system_initialized set
C30_SessionInitialised ==
    /\ session_state.system_initialized => SystemComplete
    /\ LastIs("initialize_system") =>
           IF lastOp.faults # {}
           THEN lastRet = "False" /\ ~session_state.system_initialized
           ELSE lastRet = "True" /\ session_state.system_initialized
    /\ lastOp.name \in {"add", "hybrid", "clear"} => session_state.system_initialized

\* the second run of initialize_system failed after it had made an embedder
\* again: the embedder is there, the hybrid search is not, and the system is
\* not initialised
C30_Witness ==
    /\ LastIs("initialize_system")
    /\ lastRet = "False"
    /\ session_state.attempts = 2
    /\ session_state.embedder # None
    /\ session_state.hybrid_search = None
    /\ ~session_state.system_initialized
====
